---- MODULE Spec2Model ----
(***************************************************************************)
(* Verification model of the two-stage test generation system              *)
(* (src/agents): the coverage loop controller, the execution loop          *)
(* controller, the test case status tracker and the coverage validator.    *)
(*                                                                         *)
(* Conventions                                                             *)
(*  - A Python dict is a TLA+ function whose DOMAIN is the set of keys     *)
(*    present; d.get(k, default) is Get(d, k, default); {} is EmptyDict.   *)
(*  - A Python str is a sequence of tokens; "" is <<>>; a in b is          *)
(*    InStr(a, b) (contiguous subsequence); f"{c}.{m}" is c \o Dot \o m.   *)
(*  - A percentage is an integer number of hundredths of a percent, the    *)
(*    precision of round(x, 2): 100% is 10000, 33.33% is 3333.             *)
(***************************************************************************)
EXTENDS Integers, Sequences, FiniteSets, TLC

VARIABLES
    \* --- coverage loop controller, called on arbitrary reports ---
    max_iterations,           \* argument max_iterations of should_continue_coverage_loop
    iteration_count,          \* argument iteration_count, 0, 1, 2, ...
    coverage_validation,      \* argument coverage_validation of the last call
    coverage_decision,        \* dict returned by the last call
    coverage_log,             \* should_continue of every call so far, in order
    \* --- execution loop controller ---
    exec_max_iterations,      \* argument max_iterations of should_continue_execution_loop
    exec_iteration_count,     \* argument iteration_count
    test_status_summary,      \* argument test_status_summary of the last call
    execution_decision,       \* dict returned by the last call
    \* --- test case status tracker and the Stage 2 cycle around it ---
    tracked_scenarios,        \* argument test_scenarios of initialize_test_status_tracking
    tracking_data,            \* the tracking dict (test_records kept as a list in dict order)
    test_results,             \* argument test_results of the last update
    execution_iteration,      \* state['execution_iteration'], argument iteration_count of the next update
    stage2_step,              \* the step of the Stage 2 cycle that comes next
    exit_result,              \* dict returned by exit_execution_loop
    final_test_suite,         \* dict returned by prepare_final_test_suite
    merge_result,             \* dict returned by merge_test_implementations
    \* --- code analyzer ---
    source_code,              \* argument source_code of analyze_code_structure, as ast.parse reads it
    language,                 \* argument language
    analysis,                 \* what the call produced: a returned dict or a raised exception
    \* --- stage 1: scenario list, coverage validator, loop decision ---
    static_analysis,          \* state['static_analysis_report']
    test_scenarios,           \* state['coverage_focused_scenarios']
    coverage_validation_result, \* report of validate_scenario_coverage
    coverage_loop_decision,   \* state['coverage_loop_decision']
    coverage_iteration,       \* iteration_count the validator agent passes: loop iterations completed
    escalate,                 \* tool_context.actions.escalate set by exit_loop
    \* --- the two-stage pipeline ---
    pipeline_position,        \* the sub-agent of two_stage_system that runs next
    agents_run,               \* the agents that have run, in order
    generated_test_code,      \* state['generated_test_code'], the names of its test functions
    selective_test_results,   \* state['selective_test_results']
    \* --- test runner and its ExecutionTracker ---
    execution_history,        \* execution_tracker.execution_history
    current_session,          \* execution_tracker.current_session, {} for None
    raw_execution_output,     \* dict returned by the last execute_tests_sandboxed
    parsed_results,           \* what the last parse_test_results produced
    clock,                    \* the time, read by time.time() and datetime.now()
    sessions_started,         \* calls of execute_tests_sandboxed so far
    runner_step               \* the tool the test runner agent calls next

ctlVars   == <<max_iterations, iteration_count, coverage_validation, coverage_decision, coverage_log>>
execVars  == <<exec_max_iterations, exec_iteration_count, test_status_summary, execution_decision>>
trackVars == <<tracked_scenarios, tracking_data, test_results, execution_iteration,
               stage2_step, exit_result, final_test_suite, merge_result>>
analyzerVars == <<source_code, language, analysis>>
stageVars == <<static_analysis, test_scenarios, coverage_validation_result,
               coverage_loop_decision, coverage_iteration, escalate>>
pipelineVars == <<pipeline_position, agents_run, generated_test_code, selective_test_results>>
runnerVars == <<execution_history, current_session, raw_execution_output, parsed_results,
                clock, sessions_started, runner_step>>
vars      == <<ctlVars, execVars, trackVars, stageVars, analyzerVars, pipelineVars, runnerVars>>

----------------------------------------------------------------------------
(* Python dicts, strings and numbers *)

EmptyDict == <<>>

Get(d, k, default) == IF k \in DOMAIN d THEN d[k] ELSE default

\* Python truthiness of a dict or list: empty is false
Truthy(d) == DOMAIN d # {}

Max(a, b) == IF a >= b THEN a ELSE b

\* a in b, for strings
InStr(a, b) == \E i \in 0..(Len(b) - Len(a)) : SubSeq(b, i + 1, i + Len(a)) = a

\* s.startswith(p)
StartsWith(s, p) == Len(s) >= Len(p) /\ SubSeq(s, 1, Len(p)) = p

\* the percentage cut off after two places instead of rounded
TruncPct(n, d) == (10000 * n) \div d

\* round(n / d * 100, 2) in hundredths of a percent: round(10000 n / d),
\* ties to even as Python's round
RoundPct(n, d) ==
    LET q == (20000 * n) \div (2 * d)
        r == (20000 * n) % (2 * d)
    IN  IF r < d THEN q
        ELSE IF r > d THEN q + 1
        ELSE IF q % 2 = 0 THEN q ELSE q + 1

Pct(p) == p * 100

\* sequences over S of length 0..n
SeqsUpTo(S, n) == UNION {[1..k -> S] : k \in 0..n}

----------------------------------------------------------------------------
(* src/agents/config.py *)

COVERAGE_MAX_ITERATIONS == 5
COVERAGE_TARGET == 100
MIN_COVERAGE_THRESHOLD == 80
EXECUTION_MAX_ITERATIONS == 10
EXECUTION_SUCCESS_THRESHOLD == 95

----------------------------------------------------------------------------
(* Bounds of the model *)

MaxIterBound == 3       \* max_iterations ranges over 0..MaxIterBound
MaxEvals == 5           \* calls of a loop controller in one behaviour
MaxTests == 2           \* scenarios handed to initialize_test_status_tracking
MaxDetails == 2         \* outcomes in test_details of one execution result
MaxUpdates == 2         \* calls of update_test_case_status in one behaviour
MaxScenarios == 3       \* scenarios accumulated in Stage 1
MaxStatements == 3      \* statements in the body of an analysed module
MaxLines == 2          \* result lines in the output of one pytest run
MaxRuns == 2           \* runs of the sandbox by the test runner in one behaviour

----------------------------------------------------------------------------
(* src/agents/coverage_loop_controller/tools.py *)

should_continue_coverage_loop(cv, ic, mi) ==
    IF ~Truthy(cv)
    THEN [should_continue |-> TRUE, current_coverage |-> 0, gap |-> Pct(100),
          remaining_iterations |-> mi - ic, deferred |-> TRUE]
    ELSE
    LET coverage_summary   == Get(cv, "coverage_summary", EmptyDict)
        overall_coverage_1 == Get(coverage_summary, "overall_coverage", 0)
        overall_coverage_2 == Get(cv, "coverage_percentage", 0)
        overall_max        == Max(overall_coverage_1, overall_coverage_2)
        meets_target       == Get(cv, "meets_target", FALSE)
        overall_coverage   ==
            IF overall_max = 0 /\ Truthy(coverage_summary)
                               /\ "overall_coverage" \in DOMAIN coverage_summary
            THEN Get(Get(cv, "coverage_summary", EmptyDict), "overall_coverage", 0)
            ELSE overall_max
    IN  IF ic >= mi
        THEN [should_continue |-> FALSE, final_coverage |-> overall_coverage,
              exit_type |-> "max_iterations"]
        ELSE IF meets_target /\ overall_coverage >= Pct(COVERAGE_TARGET)
        THEN [should_continue |-> FALSE, final_coverage |-> overall_coverage,
              exit_type |-> "target_achieved"]
        ELSE IF overall_coverage >= Pct(MIN_COVERAGE_THRESHOLD) /\ ic >= 2
        THEN [should_continue |-> FALSE, final_coverage |-> overall_coverage,
              exit_type |-> "acceptable_threshold"]
        ELSE [should_continue |-> TRUE, current_coverage |-> overall_coverage,
              coverage_gap |-> Pct(COVERAGE_TARGET) - overall_coverage,
              remaining_iterations |-> mi - ic]

----------------------------------------------------------------------------
(* src/agents/execution_loop_controller/tools.py *)

\* the same function with the all-passed rule tried before the iteration ceiling
should_continue_execution_loop_ceiling_second(tss, ic, mi) ==
    LET all_tests_passing       == Get(tss, "all_tests_passing", FALSE)
        success_rate            == Get(tss, "success_rate", 0)
        tests_needing_attention == Get(tss, "tests_needing_attention", 0)
    IN  IF all_tests_passing
        THEN [should_continue |-> FALSE, final_success_rate |-> success_rate,
              exit_type |-> "all_passed", tests_still_failing |-> 0]
        ELSE IF ic >= mi
        THEN [should_continue |-> FALSE, final_success_rate |-> success_rate,
              exit_type |-> "max_iterations",
              tests_still_failing |-> tests_needing_attention]
        ELSE IF success_rate >= Pct(EXECUTION_SUCCESS_THRESHOLD) /\ ic >= 2
        THEN [should_continue |-> FALSE, final_success_rate |-> success_rate,
              exit_type |-> "threshold_met",
              tests_still_failing |-> tests_needing_attention]
        ELSE [should_continue |-> TRUE, current_success_rate |-> success_rate,
              failing_tests |-> tests_needing_attention,
              remaining_iterations |-> mi - ic]

should_continue_execution_loop(tss, ic, mi) ==
    LET all_tests_passing       == Get(tss, "all_tests_passing", FALSE)
        success_rate            == Get(tss, "success_rate", 0)
        tests_needing_attention == Get(tss, "tests_needing_attention", 0)
    IN  IF ic >= mi
        THEN [should_continue |-> FALSE, final_success_rate |-> success_rate,
              exit_type |-> "max_iterations",
              tests_still_failing |-> tests_needing_attention]
        ELSE IF all_tests_passing
        THEN [should_continue |-> FALSE, final_success_rate |-> success_rate,
              exit_type |-> "all_passed", tests_still_failing |-> 0]
        ELSE IF success_rate >= Pct(EXECUTION_SUCCESS_THRESHOLD) /\ ic >= 2
        THEN [should_continue |-> FALSE, final_success_rate |-> success_rate,
              exit_type |-> "threshold_met",
              tests_still_failing |-> tests_needing_attention]
        ELSE [should_continue |-> TRUE, current_success_rate |-> success_rate,
              failing_tests |-> tests_needing_attention,
              remaining_iterations |-> mi - ic]

----------------------------------------------------------------------------
(* src/agents/test_case_status_tracker/tools.py *)

\* the member TestCaseStatus.PENDING itself: an Enum member is not equal to
\* its value "pending", and asdict() leaves it in the record as it is
TestCaseStatus_PENDING == "TestCaseStatus.PENDING"

\* TestCaseStatus.X.value
PENDING == "pending"
PASSED == "passed"
FAILED == "failed"
SYNTAX_ERROR == "syntax_error"
SKIPPED == "skipped"

\* f"test_{n:03d}"
AutoTestId(n) ==
    CASE n = 1 -> <<"test_001">> [] n = 2 -> <<"test_002">> [] n = 3 -> <<"test_003">>
      [] n = 4 -> <<"test_004">> [] n = 5 -> <<"test_005">> [] n = 6 -> <<"test_006">>
      [] n = 7 -> <<"test_007">> [] n = 8 -> <<"test_008">> [] OTHER -> <<"test_009">>

\* asdict(TestCaseRecord(id, scenario_description, target_name,
\* status=TestCaseStatus.PENDING)), with the defaults of the other fields
TestCaseRecord(id, description, target) ==
    [id |-> id, scenario_description |-> description, target_name |-> target,
     status |-> TestCaseStatus_PENDING, last_error |-> <<>>, iteration_passed |-> -1,
     iteration_failed |-> -1, test_code |-> <<>>, execution_output |-> <<>>]

\* index of key id in a dict kept as a list of records in insertion order, 0 if absent
IndexOfId(records, id) ==
    IF \E i \in 1..Len(records) : records[i].id = id
    THEN CHOOSE i \in 1..Len(records) : records[i].id = id
    ELSE 0

\* test_records[test_id] = record: an existing key keeps its position
DictSet(records, rec) ==
    IF IndexOfId(records, rec.id) = 0
    THEN Append(records, rec)
    ELSE [records EXCEPT ![IndexOfId(records, rec.id)] = rec]

RECURSIVE BuildRecords(_, _)
BuildRecords(records, scenarios) ==
    IF scenarios = <<>> THEN records
    ELSE LET scenario == Head(scenarios)
             test_id  == Get(scenario, "id", AutoTestId(Len(records) + 1))
             record   == TestCaseRecord(test_id,
                                        Get(scenario, "description", <<>>),
                                        Get(scenario, "target_name", <<>>))
         IN  BuildRecords(DictSet(records, record), Tail(scenarios))

initialize_test_status_tracking(scenarios) ==
    LET test_records == BuildRecords(<<>>, scenarios)
    IN  [test_records |-> test_records,
         total_tests |-> Len(test_records),
         status_summary |-> [pending |-> Len(test_records), passed |-> 0, failed |-> 0,
                             syntax_error |-> 0, skipped |-> 0],
         initialization_complete |-> TRUE,
         current_iteration |-> 0]

\* the condition of the matching loop for one record
RecordMatches(test_name, record) ==
    \/ InStr(test_name, record.scenario_description)
    \/ test_name = record.target_name
    \/ record.id = test_name

\* the same search falling back to the first record when no record matches
MatchingRecordOrFirst(records, test_name) ==
    IF \E i \in 1..Len(records) : RecordMatches(test_name, records[i])
    THEN CHOOSE i \in 1..Len(records) :
            /\ RecordMatches(test_name, records[i])
            /\ \A j \in 1..(i - 1) : ~RecordMatches(test_name, records[j])
    ELSE IF Len(records) > 0 THEN 1 ELSE 0

\* matching_record: index of the first record, in dict order, that matches; 0 for None
MatchingRecord(records, test_name) ==
    IF \E i \in 1..Len(records) : RecordMatches(test_name, records[i])
    THEN CHOOSE i \in 1..Len(records) :
            /\ RecordMatches(test_name, records[i])
            /\ \A j \in 1..(i - 1) : ~RecordMatches(test_name, records[j])
    ELSE 0

\* "SyntaxError" in error_message or "ImportError" in error_message
IsSyntaxOrImportError(error_message) ==
    InStr(<<"SyntaxError">>, error_message) \/ InStr(<<"ImportError">>, error_message)

\* body of "if matching_record:" for one result
ApplyResult(record, result, ic) ==
    LET test_status   == Get(result, "status", "UNKNOWN")
        error_message == Get(result, "error", <<>>)
        updated ==
            IF test_status = "PASS"
            THEN [record EXCEPT !.status = PASSED, !.iteration_passed = ic,
                                !.last_error = <<>>]
            ELSE IF IsSyntaxOrImportError(error_message)
            THEN [record EXCEPT !.status = SYNTAX_ERROR, !.iteration_failed = ic,
                                !.last_error = error_message]
            ELSE [record EXCEPT !.status = FAILED, !.iteration_failed = ic,
                                !.last_error = error_message]
    IN  [updated EXCEPT !.execution_output = Get(result, "output", <<>>)]

\* the loop "for result in execution_results"
RECURSIVE ApplyResults(_, _, _)
ApplyResults(records, results, ic) ==
    IF results = <<>> THEN records
    ELSE LET result == Head(results)
             m      == MatchingRecord(records, Get(result, "test_name", <<>>))
             \* "if matching_record:" is false for None and for the id ""
             next   == IF m # 0 /\ records[m].id # <<>>
                       THEN [records EXCEPT ![m] = ApplyResult(records[m], result, ic)]
                       ELSE records
         IN  ApplyResults(next, Tail(results), ic)

\* the branch for an overall PASS without details
MarkPendingPassed(records, ic) ==
    [i \in 1..Len(records) |->
        IF records[i].status = PENDING
        THEN [records[i] EXCEPT !.status = PASSED, !.iteration_passed = ic]
        ELSE records[i]]

\* the same branch without the check that the record is pending
MarkAllFailed(records, error_message, ic) ==
    [i \in 1..Len(records) |->
        [records[i] EXCEPT
            !.status = IF IsSyntaxOrImportError(error_message)
                       THEN SYNTAX_ERROR ELSE FAILED,
            !.iteration_failed = ic,
            !.last_error = error_message]]

\* the branch for an overall FAIL or ERROR without details
MarkPendingFailed(records, error_message, ic) ==
    [i \in 1..Len(records) |->
        IF records[i].status = PENDING
        THEN [records[i] EXCEPT
                !.status = IF IsSyntaxOrImportError(error_message)
                           THEN SYNTAX_ERROR ELSE FAILED,
                !.iteration_failed = ic,
                !.last_error = error_message]
        ELSE records[i]]

CountStatus(records, status) ==
    Cardinality({i \in 1..Len(records) : records[i].status = status})

update_test_case_status(td, tr, ic) ==
    LET test_records      == Get(td, "test_records", <<>>)
        execution_results == Get(tr, "test_details", <<>>)
        overall_status    == Get(tr, "status", "UNKNOWN")
        updated ==
            IF execution_results # <<>>
            THEN ApplyResults(test_records, execution_results, ic)
            ELSE IF overall_status = "PASS"
            THEN MarkPendingPassed(test_records, ic)
            ELSE IF overall_status \in {"FAIL", "ERROR"}
            THEN MarkPendingFailed(test_records,
                                   Get(tr, "error_summary", <<"Execution", "failed">>), ic)
            ELSE test_records
        status_summary ==
            [pending      |-> CountStatus(updated, PENDING),
             passed       |-> CountStatus(updated, PASSED),
             failed       |-> CountStatus(updated, FAILED),
             syntax_error |-> CountStatus(updated, SYNTAX_ERROR),
             skipped      |-> CountStatus(updated, SKIPPED)]
        old == [k \in DOMAIN td \ {"test_records", "status_summary",
                                   "current_iteration", "last_update"} |-> td[k]]
    IN  old @@ [test_records |-> updated, status_summary |-> status_summary,
                current_iteration |-> ic,
                last_update |-> ic]     \* f"iteration_{ic}", kept as the number

IsFailing(record) == record.status \in {FAILED, SYNTAX_ERROR}

get_failed_test_cases(td) ==
    LET failing == SelectSeq(Get(td, "test_records", <<>>), IsFailing)
    IN  [i \in 1..Len(failing) |->
            [test_id |-> failing[i].id,
             description |-> failing[i].scenario_description,
             target_name |-> failing[i].target_name,
             status |-> failing[i].status,
             error |-> failing[i].last_error,
             needs_regeneration |-> TRUE]]

IsPassed(record) == record.status = PASSED

get_passed_test_cases(td) ==
    LET passed == SelectSeq(Get(td, "test_records", <<>>), IsPassed)
    IN  [i \in 1..Len(passed) |->
            [test_id |-> passed[i].id,
             description |-> passed[i].scenario_description,
             target_name |-> passed[i].target_name,
             test_code |-> passed[i].test_code,
             iteration_passed |-> passed[i].iteration_passed,
             preserve |-> TRUE]]

\* the same summary with the success rate taken over total_tests
get_status_summary_over_total(td) ==
    LET status_summary     == Get(td, "status_summary", EmptyDict)
        total_tests        == Get(td, "total_tests", 0)
        passed_count       == Get(status_summary, "passed", 0)
        failed_count       == Get(status_summary, "failed", 0)
        syntax_error_count == Get(status_summary, "syntax_error", 0)
    IN  [overall_status |->
            IF passed_count = total_tests THEN "all_passed"
            ELSE IF failed_count = 0 /\ syntax_error_count = 0 THEN "partial_success"
            ELSE IF syntax_error_count > 0 THEN "syntax_issues"
            ELSE "execution_issues",
         success_rate |-> IF total_tests > 0 THEN RoundPct(passed_count, total_tests) ELSE 0,
         total_tests |-> total_tests,
         status_breakdown |-> status_summary,
         tests_needing_attention |-> failed_count + syntax_error_count,
         tests_ready |-> passed_count,
         current_iteration |-> Get(td, "current_iteration", 0),
         all_tests_passing |-> (passed_count = total_tests),
         has_failures |-> (failed_count + syntax_error_count > 0)]

get_status_summary(td) ==
    LET status_summary     == Get(td, "status_summary", EmptyDict)
        total_tests        == Get(td, "total_tests", 0)
        passed_count       == Get(status_summary, "passed", 0)
        failed_count       == Get(status_summary, "failed", 0)
        syntax_error_count == Get(status_summary, "syntax_error", 0)
        executed_tests     == passed_count + failed_count + syntax_error_count
    IN  [overall_status |->
            IF passed_count = total_tests THEN "all_passed"
            ELSE IF failed_count = 0 /\ syntax_error_count = 0 THEN "partial_success"
            ELSE IF syntax_error_count > 0 THEN "syntax_issues"
            ELSE "execution_issues",
         success_rate |-> IF executed_tests > 0
                          THEN RoundPct(passed_count, executed_tests) ELSE 0,
         total_tests |-> total_tests,
         status_breakdown |-> status_summary,
         tests_needing_attention |-> failed_count + syntax_error_count,
         tests_ready |-> passed_count,
         current_iteration |-> Get(td, "current_iteration", 0),
         all_tests_passing |-> (passed_count = total_tests),
         has_failures |-> (failed_count + syntax_error_count > 0)]

----------------------------------------------------------------------------
(* src/agents/execution_loop_controller/tools.py: leaving the loop *)

\* the message texts of the result are left out
exit_execution_loop(final_success_rate, exit_reason, tests_still_failing, total_tests) ==
    [stage2_complete |-> TRUE,
     system_complete |-> TRUE,
     final_success_rate |-> final_success_rate,
     exit_reason |-> exit_reason,
     system_status |->
        IF tests_still_failing = 0 THEN "COMPLETE"
        ELSE IF final_success_rate >= Pct(EXECUTION_SUCCESS_THRESHOLD) THEN "ACCEPTABLE"
        ELSE "PARTIAL",
     return_strategy |->
        IF tests_still_failing = 0 THEN "complete_suite" ELSE "passing_tests_only",
     tests_summary |-> [total |-> total_tests,
                        passing |-> total_tests - tests_still_failing,
                        failing |-> tests_still_failing],
     ready_for_reporting |-> TRUE]

\* the same preparation including the failing tests under every strategy
prepare_final_test_suite_with_failing(tss, return_strategy) ==
    LET passing_tests == Get(tss, "tests_ready", 0)
        failing_tests == Get(tss, "tests_needing_attention", 0)
    IN  [return_strategy |-> return_strategy,
         include_failing_tests |-> TRUE,
         tests_to_include |-> [passing |-> passing_tests,
                               failing |-> failing_tests,
                               total |-> passing_tests + failing_tests],
         preparation_complete |-> TRUE]

\* the description texts of the result are left out
prepare_final_test_suite(tss, return_strategy) ==
    LET passing_tests   == Get(tss, "tests_ready", 0)
        failing_tests   == Get(tss, "tests_needing_attention", 0)
        include_failing == (return_strategy = "complete_suite")
    IN  [return_strategy |-> return_strategy,
         include_failing_tests |-> include_failing,
         tests_to_include |-> [passing |-> passing_tests,
                               failing |-> IF include_failing THEN failing_tests ELSE 0,
                               total |-> passing_tests
                                         + (IF include_failing THEN failing_tests ELSE 0)],
         preparation_complete |-> TRUE]

----------------------------------------------------------------------------
(* src/agents/incremental_test_implementer/tools.py *)

\* the test function written for a test case: never the empty string, it
\* starts with "def" and carries the description
GenerateTestImplementation(test_id, description) == <<"def">> \o test_id \o description

\* index of key test_id in a dict of implementations kept in insertion order
IndexOfTestId(impls, test_id) ==
    IF \E i \in 1..Len(impls) : impls[i].test_id = test_id
    THEN CHOOSE i \in 1..Len(impls) : impls[i].test_id = test_id
    ELSE 0

\* implementations[test_id] = entry
ImplSet(impls, entry) ==
    IF IndexOfTestId(impls, entry.test_id) = 0
    THEN Append(impls, entry)
    ELSE [impls EXCEPT ![IndexOfTestId(impls, entry.test_id)] = entry]

RECURSIVE BuildImplementations(_, _)
BuildImplementations(impls, failed_test_cases) ==
    IF failed_test_cases = <<>> THEN impls
    ELSE LET test_case == Head(failed_test_cases)
             test_id   == Get(test_case, "test_id", <<"unknown">>)
             entry ==
                [test_id |-> test_id,
                 test_code |-> GenerateTestImplementation(
                                    test_id, Get(test_case, "description", <<>>)),
                 target_name |-> Get(test_case, "target_name", <<>>),
                 description |-> Get(test_case, "description", <<>>),
                 regenerated |-> TRUE,
                 previous_error |-> Get(test_case, "error", <<>>)]
         IN  BuildImplementations(ImplSet(impls, entry), Tail(failed_test_cases))

implement_failed_tests(failed_test_cases) ==
    LET implementations == BuildImplementations(<<>>, failed_test_cases)
    IN  [implementations |-> implementations,
         total_implemented |-> Len(implementations),
         framework |-> "pytest",
         implementation_type |-> "incremental_failed_only"]

\* the loop "for passed_test in passed_test_cases": (all_implementations, preserved_count)
RECURSIVE PreservePassed(_, _, _)
PreservePassed(impls, count, passed_test_cases) ==
    IF passed_test_cases = <<>> THEN <<impls, count>>
    ELSE LET passed_test   == Head(passed_test_cases)
             test_id       == Get(passed_test, "test_id", <<>>)
             existing_code == Get(passed_test, "test_code", <<>>)
             entry ==
                [test_id |-> test_id,
                 test_code |-> existing_code,
                 target_name |-> Get(passed_test, "target_name", <<>>),
                 description |-> Get(passed_test, "description", <<>>),
                 regenerated |-> FALSE,
                 preserved |-> TRUE,
                 iteration_passed |-> Get(passed_test, "iteration_passed", -1)]
         IN  IF test_id # <<>> /\ existing_code # <<>>
             THEN PreservePassed(ImplSet(impls, entry), count + 1, Tail(passed_test_cases))
             ELSE PreservePassed(impls, count, Tail(passed_test_cases))

\* the non-empty test_code blocks of the implementations, in dict order
RECURSIVE MergeTestCodeBlocks(_)
MergeTestCodeBlocks(impls) ==
    IF impls = <<>> THEN <<>>
    ELSE (IF Get(Head(impls), "test_code", <<>>) # <<>>
          THEN <<Head(impls).test_code>> ELSE <<>>)
         \o MergeTestCodeBlocks(Tail(impls))

merge_test_implementations(new_implementations, passed_test_cases) ==
    LET start  == Get(new_implementations, "implementations", <<>>)
        merged == PreservePassed(start, 0, passed_test_cases)
    IN  [complete_test_suite |-> MergeTestCodeBlocks(merged[1]),
         total_tests |-> Len(merged[1]),
         new_implementations |-> Len(start),
         preserved_tests |-> merged[2],
         all_implementations |-> merged[1],
         merge_successful |-> TRUE]

----------------------------------------------------------------------------
(* src/agents/code_analyzer/tools.py *)

\* A source text is what ast.parse makes of it: [parses |-> FALSE] when it
\* raises SyntaxError, else the Module [parses |-> TRUE, body |-> statements].
\* A statement is [kind, name, body]; kind is the class of the ast node.

None == "None"

\* _get_function_details(node)
GetFunctionDetails(node) ==
    [name |-> node.name,
     docstring |-> Get(node, "docstring", None),
     parameters |-> Get(node, "parameters", <<>>),
     return_type |-> Get(node, "return_type", None)]

\* the FunctionDef items of a class body
RECURSIVE MethodsOf(_)
MethodsOf(body) ==
    IF body = <<>> THEN <<>>
    ELSE (IF Head(body).kind = "FunctionDef"
          THEN <<GetFunctionDetails(Head(body))>> ELSE <<>>)
         \o MethodsOf(Tail(body))

\* visit_ClassDef: the class_info appended to structure
ClassInfo(node) ==
    [type |-> "class", name |-> node.name,
     docstring |-> Get(node, "docstring", None),
     methods |-> MethodsOf(node.body)]

\* visit_FunctionDef: no node has the attribute 'parents', so the test for
\* a ClassDef parent never fails and func_info is appended
FunctionInfo(node) == GetFunctionDetails(node) @@ [type |-> "function"]

\* a visitor that goes on into the body of every node
ChildrenOfEveryNode(node) == Get(node, "body", <<>>)

\* the children visit(node) goes on to: visit_ClassDef and visit_FunctionDef
\* do not call generic_visit; every other node is handled by generic_visit
ChildrenToVisit(node) ==
    IF node.kind \in {"ClassDef", "FunctionDef"} THEN <<>>
    ELSE Get(node, "body", <<>>)

RECURSIVE Visit(_, _)
RECURSIVE VisitAll(_, _)

\* visitor.visit(node): structure after the visit
Visit(node, structure) ==
    LET visited ==
            IF node.kind = "ClassDef" THEN Append(structure, ClassInfo(node))
            ELSE IF node.kind = "FunctionDef" THEN Append(structure, FunctionInfo(node))
            ELSE structure
    IN  VisitAll(ChildrenToVisit(node), visited)

\* the visits of the children, in order
VisitAll(nodes, structure) ==
    IF nodes = <<>> THEN structure
    ELSE VisitAll(Tail(nodes), Visit(Head(nodes), structure))

\* language.lower()
Lower(lang) ==
    CASE lang \in {"Python", "PYTHON"} -> "python"
      [] lang \in {"Java", "JAVA"} -> "java"
      [] OTHER -> lang

\* what a call produces
Returned(result) == [returned |-> result]
Raised(exception) == [raised |-> exception]

analyze_code_structure(src, lang) ==
    IF Lower(lang) = "python"
    THEN IF src.parses
         THEN Returned([status |-> "success",
                        structure |-> Visit([kind |-> "Module", body |-> src.body], <<>>)])
         ELSE Returned([status |-> "error", message |-> <<"Python syntax error">>])
    ELSE IF Lower(lang) = "java"
    THEN Raised("NotImplementedError")
    ELSE Returned([status |-> "error", message |-> <<"Unsupported language", lang>>])

----------------------------------------------------------------------------
(* src/agents/coverage_validator/tools.py *)

Dot == <<".">>

\* f"{class_name}.{method_name}"
QualifiedName(class_name, method_name) == class_name \o Dot \o method_name

\* the elements of a list
Elems(list) == {list[i] : i \in 1..Len(list)}

\* all_functions, for both formats of the static analysis
AllFunctions(sa) ==
    IF "structure" \in DOMAIN sa
    THEN {item.name : item \in {it \in Elems(sa.structure) :
                                    Get(it, "type", "none") = "function"}}
    ELSE {func.name : func \in {f \in Elems(Get(sa, "functions", <<>>)) :
                                    Get(f, "name", <<>>) # <<>>}}

\* all_classes
AllClasses(sa) ==
    IF "structure" \in DOMAIN sa
    THEN {item.name : item \in {it \in Elems(sa.structure) :
                                    Get(it, "type", "none") = "class"}}
    ELSE {cls.name : cls \in {c \in Elems(Get(sa, "classes", <<>>)) :
                                    Get(c, "name", <<>>) # <<>>}}

\* all_methods; the legacy dict methods is a list of (class_name, methods) items
AllMethods(sa) ==
    IF "structure" \in DOMAIN sa
    THEN UNION {{QualifiedName(item.name, method.name) :
                    method \in Elems(Get(item, "methods", <<>>))} :
                item \in {it \in Elems(sa.structure) :
                            Get(it, "type", "none") = "class"}}
    ELSE UNION {{QualifiedName(entry.class_name, method.name) :
                    method \in {m \in Elems(entry.methods) :
                                    Get(m, "name", <<>>) # <<>>}} :
                entry \in Elems(Get(sa, "methods", <<>>))}

\* the branch the scenario takes in the loop "for scenario in test_scenarios"
ScenarioBranch(scenario) ==
    LET target_type     == Get(scenario, "target_type", <<>>)
        coverage_target == Get(scenario, "coverage_target", <<>>)
    IN  IF target_type = <<"function">>
           \/ StartsWith(coverage_target, <<"function", ":">>) THEN "function"
        ELSE IF target_type = <<"class">>
           \/ StartsWith(coverage_target, <<"class", ":">>) THEN "class"
        ELSE IF target_type = <<"method">>
           \/ StartsWith(coverage_target, <<"method", ":">>) THEN "method"
        ELSE "none"

\* covered_functions, covered_classes or covered_methods after the loop
Covered(scenarios, branch) ==
    {Get(scenario, "target_name", <<>>) :
        scenario \in {sc \in Elems(scenarios) : ScenarioBranch(sc) = branch}}

\* (covered / total * 100) if total else otherwise, rounded to 2 places
CoveragePct(covered, total, otherwise) ==
    IF total > 0 THEN RoundPct(covered, total) ELSE otherwise

validate_scenario_coverage(scenarios, sa) ==
    LET all_functions     == AllFunctions(sa)
        all_classes       == AllClasses(sa)
        all_methods       == AllMethods(sa)
        covered_functions == Covered(scenarios, "function")
        covered_classes   == Covered(scenarios, "class")
        covered_methods   == Covered(scenarios, "method")
        total_units   == Cardinality(all_functions) + Cardinality(all_classes)
                            + Cardinality(all_methods)
        covered_units == Cardinality(covered_functions) + Cardinality(covered_classes)
                            + Cardinality(covered_methods)
    IN  [coverage_summary |->
            [overall_coverage  |-> CoveragePct(covered_units, total_units, 0),
             function_coverage |-> CoveragePct(Cardinality(covered_functions),
                                               Cardinality(all_functions), Pct(100)),
             class_coverage    |-> CoveragePct(Cardinality(covered_classes),
                                               Cardinality(all_classes), Pct(100)),
             method_coverage   |-> CoveragePct(Cardinality(covered_methods),
                                               Cardinality(all_methods), Pct(100))],
         coverage_details |->
            [total_units |-> total_units, covered_units |-> covered_units,
             uncovered_units |-> total_units - covered_units],
         covered_units |->
            [functions |-> covered_functions, classes |-> covered_classes,
             methods |-> covered_methods],
         uncovered_units |->
            [functions |-> all_functions \ covered_functions,
             classes |-> all_classes \ covered_classes,
             methods |-> all_methods \ covered_methods],
         \* overall_coverage >= 100.0, on the unrounded value
         meets_target |-> (total_units > 0 /\ covered_units >= total_units),
         validation_metadata |->
            [total_scenarios |-> Len(scenarios), scenarios_analyzed |-> Len(scenarios),
             validation_timestamp |-> "static_analysis_based"]]

----------------------------------------------------------------------------
(* src/agents/scenario_coverage_designer/tools.py *)

\* s.endswith(p)
EndsWith(s, p) ==
    Len(s) >= Len(p) /\ SubSeq(s, Len(s) - Len(p) + 1, Len(s)) = p

\* f"scenario_{scenario_id:03d}"
ScenarioId(scenario_id) ==
    <<"scenario_">> \o (IF scenario_id < 10 THEN <<"0", "0">>
                        ELSE IF scenario_id < 100 THEN <<"0">> ELSE <<>>)
                   \o <<ToString(scenario_id)>>

\* the dict methods built by "methods[cls['name']] = cls.get('methods', [])",
\* as the list of its (class_name, methods) items in insertion order: a
\* second class of the same name replaces the methods of the first
RECURSIVE MethodsByClass(_, _)
MethodsByClass(methods, classes) ==
    IF classes = <<>> THEN methods
    ELSE LET cls   == Head(classes)
             entry == [class_name |-> cls.name,
                       methods |-> Get(cls, "methods", <<>>)]
             held  == {i \in 1..Len(methods) : methods[i].class_name = cls.name}
         IN  MethodsByClass(
                 IF held = {} THEN Append(methods, entry)
                 ELSE [methods EXCEPT ![CHOOSE i \in held : TRUE] = entry],
                 Tail(classes))

\* the loop "for func in functions": one scenario for the function and one
\* more when it has parameters; scenario_id is the number of scenarios plus 1
RECURSIVE FunctionScenarios(_, _)
FunctionScenarios(scenarios, functions) ==
    IF functions = <<>> THEN scenarios
    ELSE LET func_name   == Get(Head(functions), "name", <<"unknown">>)
             func_params == Get(Head(functions), "parameters", <<>>)
             typical ==
                [id |-> ScenarioId(Len(scenarios) + 1),
                 target_type |-> <<"function">>, target_name |-> func_name,
                 description |-> <<"Test the">> \o func_name
                                    \o <<"function with typical inputs">>,
                 coverage_target |-> <<"function", ":">> \o func_name,
                 priority |-> "high"]
             edge_case ==
                [id |-> ScenarioId(Len(scenarios) + 2),
                 target_type |-> <<"function">>, target_name |-> func_name,
                 description |-> <<"Test the">> \o func_name
                                    \o <<"function with edge case inputs">>,
                 coverage_target |-> <<"function", ":">> \o func_name,
                 priority |-> "medium"]
         IN  FunctionScenarios(
                 IF func_params # <<>> THEN scenarios \o <<typical, edge_case>>
                 ELSE Append(scenarios, typical),
                 Tail(functions))

\* the magic methods the designer writes no scenario for
SkippedMagicMethod(method_name) ==
    /\ StartsWith(method_name, <<"__">>) /\ EndsWith(method_name, <<"__">>)
    /\ method_name \notin {<<"__", "init", "__">>, <<"__", "str", "__">>,
                           <<"__", "repr", "__">>}

\* the loop "for method in class_methods" of one class
RECURSIVE MethodScenarios(_, _, _)
MethodScenarios(scenarios, class_name, class_methods) ==
    IF class_methods = <<>> THEN scenarios
    ELSE LET method_name == Get(Head(class_methods), "name", <<"unknown">>)
             scenario ==
                [id |-> ScenarioId(Len(scenarios) + 1),
                 target_type |-> <<"method">>,
                 target_name |-> QualifiedName(class_name, method_name),
                 description |-> <<"Test the">> \o method_name \o <<"method of">>
                                    \o class_name \o <<"class">>,
                 coverage_target |-> <<"method", ":">>
                                    \o QualifiedName(class_name, method_name),
                 priority |-> "high"]
         IN  MethodScenarios(
                 IF SkippedMagicMethod(method_name) THEN scenarios
                 ELSE Append(scenarios, scenario),
                 class_name, Tail(class_methods))

\* the loop "for class_name, class_methods in methods.items()"
RECURSIVE AllMethodScenarios(_, _)
AllMethodScenarios(scenarios, methods) ==
    IF methods = <<>> THEN scenarios
    ELSE AllMethodScenarios(
             MethodScenarios(scenarios, Head(methods).class_name, Head(methods).methods),
             Tail(methods))

\* the loop "for class_info in classes"
RECURSIVE ClassScenarios(_, _)
ClassScenarios(scenarios, classes) ==
    IF classes = <<>> THEN scenarios
    ELSE LET class_name == Get(Head(classes), "name", <<"unknown">>)
             scenario ==
                [id |-> ScenarioId(Len(scenarios) + 1),
                 target_type |-> <<"class">>, target_name |-> class_name,
                 description |-> <<"Test instantiation and basic usage of">>
                                    \o class_name \o <<"class">>,
                 coverage_target |-> <<"class", ":">> \o class_name,
                 priority |-> "high"]
         IN  ClassScenarios(Append(scenarios, scenario), Tail(classes))

\* the loop "for unit in uncovered_units"; a unit is [str |-> text] for a
\* string, [dict |-> d] for a dict and anything else for another type
RECURSIVE FocusScenarios(_, _, _)
FocusScenarios(scenarios, uncovered_units, ic) ==
    IF uncovered_units = <<>> THEN scenarios
    ELSE LET unit   == Head(uncovered_units)
             colons == IF "str" \in DOMAIN unit
                       THEN {i \in 1..Len(unit.str) : unit.str[i] = ":"} ELSE {}
             colon  == CHOOSE i \in colons : \A j \in colons : i <= j
             unit_type ==
                IF "str" \in DOMAIN unit
                THEN (IF colons # {} THEN SubSeq(unit.str, 1, colon - 1)
                      ELSE <<"unknown">>)
                ELSE Get(unit.dict, "type", <<"unknown">>)
             unit_name ==
                IF "str" \in DOMAIN unit
                THEN (IF colons # {} THEN SubSeq(unit.str, colon + 1, Len(unit.str))
                      ELSE unit.str)
                ELSE Get(unit.dict, "name", <<"unknown">>)
             scenario ==
                [id |-> ScenarioId(Len(scenarios) + 1) \o <<"_focus">>,
                 target_type |-> unit_type, target_name |-> unit_name,
                 description |-> <<"Focused coverage test for">> \o unit_type
                                    \o unit_name \o <<"iteration", ToString(ic)>>,
                 coverage_target |-> unit_type \o <<":">> \o unit_name,
                 priority |-> "critical", iteration_focus |-> TRUE]
         IN  FocusScenarios(
                 IF DOMAIN unit \cap {"str", "dict"} = {} THEN scenarios
                 ELSE Append(scenarios, scenario),
                 Tail(uncovered_units), ic)

\* sum(len(methods) for methods in methods.values())
RECURSIVE TotalMethods(_)
TotalMethods(methods) ==
    IF methods = <<>> THEN 0
    ELSE Len(Head(methods).methods) + TotalMethods(Tail(methods))

generate_coverage_focused_scenarios(sa, uncovered_units, ic) ==
    LET IsClass(item)    == Get(item, "type", "none") = "class"
        IsFunction(item) == Get(item, "type", "none") = "function"
        classes   == IF "structure" \in DOMAIN sa THEN SelectSeq(sa.structure, IsClass)
                     ELSE Get(sa, "classes", <<>>)
        functions == IF "structure" \in DOMAIN sa THEN SelectSeq(sa.structure, IsFunction)
                     ELSE Get(sa, "functions", <<>>)
        methods   == IF "structure" \in DOMAIN sa THEN MethodsByClass(<<>>, classes)
                     ELSE Get(sa, "methods", <<>>)
        generated == ClassScenarios(
                        AllMethodScenarios(FunctionScenarios(<<>>, functions), methods),
                        classes)
        scenarios == IF uncovered_units # <<>> /\ ic > 0
                     THEN FocusScenarios(generated, uncovered_units, ic)
                     ELSE generated
    IN  [scenarios |-> scenarios,
         total_scenarios |-> Len(scenarios),
         coverage_targets |-> [i \in 1..Len(scenarios) |-> scenarios[i].coverage_target],
         generation_metadata |->
            [iteration |-> ic,
             focused_on_uncovered |-> uncovered_units # <<>>,
             total_functions |-> Len(functions),
             total_classes |-> Len(classes),
             total_methods |-> TotalMethods(methods)]]

----------------------------------------------------------------------------
(* src/agents/selective_test_runner/tools.py *)
\* stdout is the list of its lines, a line the list of its tokens, stderr
\* one line; a run of
\* the sandbox is what its subprocesses did: the exit codes of venv and pip
\* and what the pytest process did.

ResultWords == {"PASSED", "FAILED", "SKIPPED", "ERROR"}

\* the tokens that start with "test_" and the tokens that are numbers
TestFunctionNames == {"test_a", "test_b", "test_c", "test_d"}
NumberTokens == {"0", "1", "2", "3", "4", "0.01", "0.10"}

\* status.lower()
LowerWord(word) ==
    CASE word = "PASSED" -> "passed" [] word = "FAILED" -> "failed"
      [] word = "SKIPPED" -> "skipped" [] word = "ERROR" -> "error"

\* re.match(r'^(.+?::(.+?))\s+(PASSED|FAILED|SKIPPED|ERROR)', line): the
\* positions <<i, j>> of the first "::" and of the first blank after it that
\* a result word follows
ResultMatches(line) ==
    {m \in (2..Len(line)) \X (4..Len(line)) :
        /\ line[m[1]] = "::" /\ m[2] > m[1] + 1
        /\ line[m[2]] = " " /\ m[2] < Len(line) /\ line[m[2] + 1] \in ResultWords}

FirstResultMatch(line) ==
    CHOOSE m \in ResultMatches(line) :
        \A n \in ResultMatches(line) : m[1] < n[1] \/ (m[1] = n[1] /\ m[2] <= n[2])

\* the duration a summary line gives: the first number that "seconds"
\* follows, with or without a blank between; else the duration held
LineDuration(line, held) ==
    LET at == {i \in 1..Len(line) :
                /\ line[i] \in NumberTokens
                /\ \/ i + 1 <= Len(line) /\ line[i + 1] = "seconds"
                   \/ i + 2 <= Len(line) /\ line[i + 1] = " " /\ line[i + 2] = "seconds"}
    IN  IF /\ \E i \in 1..Len(line) : line[i] = "seconds"
           /\ \E i \in 1..Len(line) : line[i] \in {"passed", "failed"}
           /\ at # {}
        THEN line[CHOOSE i \in at : \A j \in at : i <= j]
        ELSE held

\* _parse_pytest_output
RECURSIVE ParsePytestLines(_, _)
ParsePytestLines(results, lines) ==
    IF lines = <<>> THEN results
    ELSE LET line == Head(lines)
             hit  == ResultMatches(line) # {}
             m    == FirstResultMatch(line)
             word == LowerWord(line[m[2] + 1])
             test == [name |-> SubSeq(line, m[1] + 1, m[2] - 1),
                      outcome |-> word, duration |-> "0.0"]
             counted ==
                IF hit
                THEN [results EXCEPT
                        !.tests = Append(@, test),
                        !.summary = [@ EXCEPT ![word] = @ + 1, !.total = @ + 1]]
                ELSE results
         IN  ParsePytestLines(
                 [counted EXCEPT !.duration = LineDuration(line, @)], Tail(lines))

ParsePytestOutput(stdout, return_code) ==
    ParsePytestLines(
        [summary |-> [total |-> 0, passed |-> 0, failed |-> 0, skipped |-> 0, error |-> 0],
         tests |-> <<>>, duration |-> "0.0"],
        stdout)

execute_selective_tests(test_count, sandbox) ==
    IF sandbox.venv # 0
    THEN [exit_code |-> sandbox.venv, stdout |-> <<>>,
          stderr |-> <<"Failed to create virtual environment:">>]
    ELSE IF sandbox.pip # 0
    THEN [exit_code |-> sandbox.pip, stdout |-> <<>>,
          stderr |-> <<"Failed to install pytest:">>]
    ELSE IF sandbox.pytest = "TimeoutExpired"
    THEN [execution_successful |-> FALSE,
          error |-> <<"Test execution timed out after 300 seconds">>,
          return_code |-> -1, execution_type |-> "selective"]
    ELSE IF sandbox.pytest = "Exception"
    THEN [execution_successful |-> FALSE, error |-> <<"str(e)">>,
          return_code |-> -1, execution_type |-> "selective"]
    ELSE [execution_successful |-> TRUE,
          return_code |-> sandbox.returncode,
          stdout |-> sandbox.stdout, stderr |-> sandbox.stderr,
          json_results |-> ParsePytestOutput(sandbox.stdout, sandbox.returncode),
          tests_executed |-> test_count,
          selective_execution |-> TRUE, execution_type |-> "selective"]

\* text.split("::")[-1]
LastPart(text) ==
    LET at == {i \in 1..Len(text) : text[i] = "::"}
    IN  IF at = {} THEN text
        ELSE SubSeq(text, (CHOOSE i \in at : \A j \in at : i >= j) + 1, Len(text))

\* the test_detail of one entry of json_results["tests"]
JsonTestDetail(test) ==
    LET outcome == Get(test, "outcome", "unknown")
        detail  == [test_name |-> LastPart(Get(test, "nodeid", <<>>)),
                    status |-> IF outcome = "passed" THEN "PASS" ELSE "FAIL",
                    outcome |-> outcome,
                    duration |-> Get(test, "duration", "0")]
    IN  IF outcome # "passed"
        THEN detail @@ [error |-> Get(Get(test, "call", EmptyDict), "longrepr",
                                      <<"Unknown error">>),
                        error_type |-> "execution_failure"]
        ELSE detail

\* _parse_pytest_stdout: the lines with '::test_' and PASSED or FAILED
ParsePytestStdout(stdout) ==
    LET Has(line, token) == \E i \in 1..Len(line) : line[i] = token
        Reported(line) ==
            /\ \E i \in 1..(Len(line) - 1) :
                    line[i] = "::" /\ line[i + 1] \in TestFunctionNames
            /\ Has(line, "PASSED") \/ Has(line, "FAILED")
            /\ Has(line, " ")
        Blank(line) == CHOOSE i \in 1..Len(line) : line[i] = " "
                            /\ \A j \in 1..Len(line) : line[j] = " " => i <= j
        Detail(line) ==
            IF Has(line, "PASSED")
            THEN [test_name |-> LastPart(SubSeq(line, 1, Blank(line) - 1)),
                  status |-> "PASS", outcome |-> "passed"]
            ELSE [test_name |-> LastPart(SubSeq(line, 1, Blank(line) - 1)),
                  status |-> "FAIL", outcome |-> "failed",
                  error |-> <<"Test failed - see pytest output for details">>,
                  error_type |-> "assertion_error"]
        reported == SelectSeq(stdout, Reported)
    IN  [i \in 1..Len(reported) |-> Detail(reported[i])]

parse_selective_results(execution_results, preserved_test_results) ==
    IF ~Get(execution_results, "execution_successful", FALSE)
    THEN [status |-> "ERROR",
          error_summary |-> Get(execution_results, "error", <<"Execution failed">>),
          test_details |-> <<>>,
          execution_type |-> "selective"]
    ELSE
    LET json_results == Get(execution_results, "json_results", EmptyDict)
        stdout       == Get(execution_results, "stdout", <<>>)
        stderr       == Get(execution_results, "stderr", <<>>)
        Has(token)   == \E l \in 1..Len(stdout) :
                            \E i \in 1..Len(stdout[l]) : stdout[l][i] = token
        tests        == Get(json_results, "tests", <<>>)
        executed ==
            IF Truthy(json_results)
            THEN [i \in 1..Len(tests) |-> JsonTestDetail(tests[i])]
            ELSE IF Has("PASSED") \/ Has("FAILED")
            THEN ParsePytestStdout(stdout)
            ELSE <<[test_name |-> <<"execution_error">>, status |-> "FAIL",
                    error |-> IF stderr # <<>> THEN stderr
                              ELSE <<"Unknown execution error">>,
                    error_type |-> "execution_failure"]>>
        preserved ==
            [i \in 1..Len(preserved_test_results) |->
                [test_name |-> Get(preserved_test_results[i], "test_id", <<"unknown">>),
                 status |-> "PASS", outcome |-> "preserved", duration |-> "0",
                 preserved |-> TRUE,
                 note |-> <<"Skipped - already passing from previous iteration">>]]
        test_details == executed \o preserved
        total_tests  == Len(test_details)
        passed_tests == Cardinality({i \in 1..total_tests : test_details[i].status = "PASS"})
        failed_tests == total_tests - passed_tests
    IN  [status |-> IF failed_tests = 0 THEN "PASS" ELSE "FAIL",
         total_tests |-> total_tests,
         passed_tests |-> passed_tests,
         failed_tests |-> failed_tests,
         test_details |-> test_details,
         error_summary |-> IF failed_tests = 0 THEN None
                           ELSE <<ToString(failed_tests), "out of", ToString(total_tests),
                                  "tests failed">>,
         execution_type |-> "selective",
         reliability_metrics |->
            \* passed_tests / total_tests * 100, kept to hundredths of a percent
            [success_rate |-> IF total_tests > 0 THEN RoundPct(passed_tests, total_tests)
                              ELSE 0,
             total_executed |-> Cardinality({i \in 1..total_tests :
                                    ~Get(test_details[i], "preserved", FALSE)}),
             preserved_count |-> Cardinality({i \in 1..total_tests :
                                    Get(test_details[i], "preserved", FALSE)})]]

----------------------------------------------------------------------------
(* src/agents/test_runner/execution_tracker.py *)
\* Times are readings of the clock; a closed session is a dict of the history.

\* ExecutionTracker.start_execution: the new current_session
start_execution(test_code, source_code_text, now) ==
    [session_id |-> <<"exec_", ToString(now)>>,
     start_time |-> now,
     test_code_length |-> Len(test_code),
     source_code_length |-> Len(source_code_text),
     status |-> "running"]

\* the tokens that are whole numbers, and int(match.group(1)) of one
IntegerTokens == {"0", "1", "2", "3", "4"}

NumberValue(token) ==
    CASE token = "0" -> 0 [] token = "1" -> 1 [] token = "2" -> 2
      [] token = "3" -> 3 [] token = "4" -> 4

\* re.search(r'(\d+)\s+word', summary): the number before the first
\* "word" that follows a number, else the default
CountBefore(summary, word, default) ==
    LET at == {i \in 2..Len(summary) :
                summary[i] = word /\ summary[i - 1] \in IntegerTokens}
    IN  IF at = {} THEN default
        ELSE NumberValue(summary[(CHOOSE i \in at : \A j \in at : i <= j) - 1])

\* ExecutionTracker._parse_test_summary
ParseTestSummary(summary) ==
    LET failed == CountBefore(summary, "failed", 0)
        passed == CountBefore(summary, "passed", 0)
    IN  [passed |-> passed, failed |-> failed, total |-> passed + failed]

\* ExecutionTracker.end_execution: <<returned dict, execution_history,
\* current_session>> after the call
end_execution(history, session, session_id, tr, raw_output, now) ==
    IF ~Truthy(session) \/ session.session_id # session_id
    THEN <<[error |-> <<"No active session">>], history, session>>
    ELSE
    LET status == Get(tr, "status", "UNKNOWN")
        session_result ==
            [session_id |-> session.session_id,
             start_time |-> session.start_time,
             test_code_length |-> session.test_code_length,
             source_code_length |-> session.source_code_length,
             end_time |-> now,
             execution_time |-> now - session.start_time,
             status |-> "completed",
             test_status |-> status,
             test_counts |-> ParseTestSummary(Get(tr, "summary", <<>>)),
             failure_count |-> Len(Get(tr, "failures", <<>>)),
             raw_exit_code |-> Get(raw_output, "exit_code", -1),
             has_stderr |-> Get(raw_output, "stderr", <<>>) # <<>>,
             success |-> (status = "PASS" /\ Get(raw_output, "exit_code", -1) = 0)]
    IN  <<session_result, Append(history, session_result), EmptyDict>>

\* round(n / d, 2) in hundredths, ties to even
RoundHundredths(n, d) ==
    LET q == (200 * n) \div (2 * d)
        r == (200 * n) % (2 * d)
    IN  IF r < d THEN q
        ELSE IF r > d THEN q + 1
        ELSE IF q % 2 = 0 THEN q ELSE q + 1

\* sum of a field over a list of dicts
RECURSIVE SumOf(_, _)
SumOf(list, field) ==
    IF list = <<>> THEN 0 ELSE Get(Head(list), field, 0) + SumOf(Tail(list), field)

\* the executions of a list that succeeded
Successful(list) == Cardinality({i \in 1..Len(list) : Get(list[i], "success", FALSE)})

\* failure_types, as the counts of its three keys (0 for an absent key)
FailureTypes(history) ==
    LET Failed(i) == ~Get(history[i], "success", FALSE)
    IN  [execution_error |->
            Cardinality({i \in 1..Len(history) :
                Failed(i) /\ history[i].raw_exit_code # 0}),
         test_failure |->
            Cardinality({i \in 1..Len(history) :
                Failed(i) /\ history[i].raw_exit_code = 0
                          /\ Get(history[i], "test_status", "UNKNOWN") = "FAIL"}),
         unknown |->
            Cardinality({i \in 1..Len(history) :
                Failed(i) /\ history[i].raw_exit_code = 0
                          /\ Get(history[i], "test_status", "UNKNOWN") # "FAIL"})]

\* ExecutionTracker.get_reliability_metrics; rates in hundredths of a percent
get_reliability_metrics(history) ==
    IF history = <<>>
    THEN [total_executions |-> 0, success_rate |-> 0,
          average_execution_time |-> 0, meets_threshold |-> FALSE]
    ELSE
    LET total_executions      == Len(history)
        successful_executions == Successful(history)
        recent_executions     == SubSeq(history, Max(1, Len(history) - 9), Len(history))
        recent_successful     == Successful(recent_executions)
        \* recent_success_rate compared with success_rate, as fractions
        recent == recent_successful * total_executions
        whole  == successful_executions * Len(recent_executions)
    IN  [total_executions |-> total_executions,
         successful_executions |-> successful_executions,
         success_rate |-> RoundPct(successful_executions, total_executions),
         recent_success_rate |-> RoundPct(recent_successful, Len(recent_executions)),
         average_execution_time |->
            RoundHundredths(SumOf(history, "execution_time"), total_executions),
         failure_types |-> FailureTypes(history),
         meets_threshold |-> (successful_executions * 100 >= 95 * total_executions),
         trend |-> IF recent > whole THEN "improving"
                   ELSE IF recent = whole THEN "stable" ELSE "declining"]

----------------------------------------------------------------------------
(* src/agents/test_runner/tools.py *)
\* The output of pytest is the list of its lines, without blank lines; a
\* line is the list of its tokens; stderr is one line.

\* what the subprocesses of execute_tests_sandboxed return; the session is
\* opened by start_execution before them
execute_tests_sandboxed(sandbox) ==
    IF sandbox.venv # 0
    THEN [exit_code |-> sandbox.venv, stdout |-> sandbox.stdout,
          stderr |-> <<"Failed to create virtual environment:">>]
    ELSE IF sandbox.pip # 0
    THEN [exit_code |-> sandbox.pip, stdout |-> sandbox.stdout,
          stderr |-> <<"Failed to install pytest:">>]
    ELSE [exit_code |-> sandbox.returncode, stdout |-> sandbox.stdout,
          stderr |-> sandbox.stderr]

\* "word" in line
HasToken(line, word) == \E i \in 1..Len(line) : line[i] = word

\* line.strip('= ')
RECURSIVE StripEquals(_)
StripEquals(line) ==
    IF line # <<>> /\ Head(line) = "=" THEN StripEquals(Tail(line))
    ELSE IF line # <<>> /\ line[Len(line)] = "=" THEN StripEquals(SubSeq(line, 1, Len(line) - 1))
    ELSE line

\* a line "===== short test summary info =====" and a line "_____ name _____"
IsSummaryInfo(line) == line = <<"=", "short test summary info", "=">>
IsFailureHeader(line) == Len(line) >= 3 /\ Head(line) = "_" /\ line[Len(line)] = "_"

\* the first of the positions after a position
FirstAfter(positions, i) ==
    CHOOSE j \in positions : j > i /\ \A k \in positions : k > i => j <= k

\* the summary of parse_test_results for exit code 0 or 1 and an output
\* that has a line
SummaryOf(stdout) ==
    LET info       == {i \in 1..Len(stdout) : IsSummaryInfo(stdout[i])}
        first_info == CHOOSE i \in info : \A j \in info : i <= j
        final_line == stdout[Len(stdout)]
    IN  IF info # {}
        THEN IF HasToken(final_line, "failed") \/ HasToken(final_line, "passed")
             THEN StripEquals(final_line)
             ELSE IF first_info < Len(stdout) THEN stdout[first_info + 1]
             ELSE <<"Test run complete.">>
        ELSE IF HasToken(final_line, "failed") \/ HasToken(final_line, "passed")
                \/ HasToken(final_line, "no tests ran")
             THEN StripEquals(final_line)
             ELSE <<"No summary found.">>

\* the failure blocks of re.findall: every header line that another header
\* or the summary info line follows, with the lines up to it
FailureDetails(stdout) ==
    LET IsEnd(line) == IsFailureHeader(line) \/ IsSummaryInfo(line)
        ends    == {i \in 1..Len(stdout) : IsEnd(stdout[i])}
        headers == {i \in 1..Len(stdout) : IsFailureHeader(stdout[i]) /\ \E j \in ends : j > i}
        Order(S) == CHOOSE f \in [1..Cardinality(S) -> S] :
                        \A a, b \in 1..Cardinality(S) : a < b => f[a] < f[b]
        Block(i) ==
            LET traceback  == SubSeq(stdout, i + 1, FirstAfter(ends, i) - 1)
                StartsWithE(line) == Head(line) = "E"
                e_lines    == SelectSeq(traceback, StartsWithE)
            IN  [test_name |-> LastPart(SubSeq(stdout[i], 2, Len(stdout[i]) - 1)),
                 error_message |->
                    IF e_lines # <<>> THEN Tail(e_lines[Len(e_lines)])
                    ELSE IF traceback # <<>> THEN traceback[Len(traceback)]
                    ELSE <<"No specific error message found.">>,
                 traceback |-> traceback]
    IN  [k \in 1..Cardinality(headers) |-> Block(Order(headers)[k])]

\* parse_test_results: <<what the call produced, execution_history,
\* current_session>> after the call
parse_test_results(raw, history, session, now) ==
    LET exit_code == Get(raw, "exit_code", -1)
        stdout    == Get(raw, "stdout", <<>>)
        stderr    == Get(raw, "stderr", <<>>)
        status    == IF exit_code = 0 THEN "PASS" ELSE "FAIL"
    IN  IF exit_code # 0 /\ exit_code # 1
        THEN <<Returned([status |-> "FAIL",
                         summary |-> IF stdout = <<>> /\ stderr # <<>>
                                     THEN <<"Test execution error:">> \o stderr
                                     ELSE <<"Test execution error (non-zero exit code).">>,
                         failures |-> <<>>]),
               history, session>>
        \* stdout.strip().splitlines()[-1] of an output without a line
        ELSE IF stdout = <<>>
        THEN <<Raised("IndexError"), history, session>>
        ELSE
        LET tr == [status |-> status, summary |-> SummaryOf(stdout),
                   failures |-> IF status = "FAIL" THEN FailureDetails(stdout) ELSE <<>>]
            ended == end_execution(history, session, session.session_id, tr, raw, now)
        IN  IF Truthy(session)
            THEN <<Returned(tr @@ [execution_metrics |-> ended[1],
                                   reliability_metrics |-> get_reliability_metrics(ended[2])]),
                   ended[2], ended[3]>>
            ELSE <<Returned(tr), history, session>>

----------------------------------------------------------------------------
(* Inputs of the two loop controllers *)

\* coverage readings around the thresholds 80% and 100%
CoverageValues == {0, 5000, 7999, 8000, 9999, 10000}

\* reports in the format of validate_scenario_coverage, in the format of
\* calculate_coverage_metrics, with missing keys, and the empty report {}
\* that state['coverage_validation_result'] holds before the first validation
CoverageReports ==
    {EmptyDict}
    \cup {[coverage_summary |-> [overall_coverage |-> c], meets_target |-> m] :
            c \in CoverageValues, m \in BOOLEAN}
    \cup {[coverage_percentage |-> c, meets_target |-> m] :
            c \in CoverageValues, m \in BOOLEAN}
    \cup {[coverage_summary |-> [overall_coverage |-> c]] : c \in CoverageValues}
    \cup {[coverage_summary |-> EmptyDict, meets_target |-> TRUE]}

SuccessRates == {0, 9499, 9500, 10000}

StatusSummaries ==
    {EmptyDict}
    \cup {[all_tests_passing |-> a, success_rate |-> s,
           tests_needing_attention |-> n, total_tests |-> 20] :
            a \in BOOLEAN, s \in SuccessRates, n \in {0, 1}}

----------------------------------------------------------------------------
(* Idle values of the variables a specification does not use *)

CtlIdle ==
    /\ max_iterations = 0
    /\ iteration_count = 0
    /\ coverage_validation = EmptyDict
    /\ coverage_decision = EmptyDict
    /\ coverage_log = <<>>

ExecIdle ==
    /\ exec_max_iterations = 0
    /\ exec_iteration_count = 0
    /\ test_status_summary = EmptyDict
    /\ execution_decision = EmptyDict

TrackIdle ==
    /\ tracked_scenarios = <<>>
    /\ tracking_data = EmptyDict
    /\ test_results = EmptyDict
    /\ execution_iteration = 0
    /\ stage2_step = "none"
    /\ exit_result = EmptyDict
    /\ final_test_suite = EmptyDict
    /\ merge_result = EmptyDict

StageIdle ==
    /\ static_analysis = EmptyDict
    /\ test_scenarios = <<>>
    /\ coverage_validation_result = EmptyDict
    /\ coverage_loop_decision = EmptyDict
    /\ coverage_iteration = 0
    /\ escalate = FALSE

AnalyzerIdle ==
    /\ source_code = EmptyDict
    /\ language = ""
    /\ analysis = EmptyDict

PipelineIdle ==
    /\ pipeline_position = "none"
    /\ agents_run = <<>>
    /\ generated_test_code = <<>>
    /\ selective_test_results = EmptyDict

RunnerIdle ==
    /\ execution_history = <<>>
    /\ current_session = EmptyDict
    /\ raw_execution_output = EmptyDict
    /\ parsed_results = EmptyDict
    /\ clock = 0
    /\ sessions_started = 0
    /\ runner_step = "none"

----------------------------------------------------------------------------
(* The coverage loop controller called once per iteration,                 *)
(* iteration_count = 0, 1, 2, ..., on any sequence of reports              *)

InitCoverageLoop ==
    /\ max_iterations \in 0..MaxIterBound
    /\ iteration_count = 0
    /\ coverage_validation = EmptyDict
    /\ coverage_decision = EmptyDict
    /\ coverage_log = <<>>
    /\ ExecIdle /\ TrackIdle /\ StageIdle /\ AnalyzerIdle /\ PipelineIdle /\ RunnerIdle

CallCoverageLoop(cv) ==
    /\ iteration_count < MaxEvals
    /\ coverage_validation' = cv
    /\ coverage_decision' =
          should_continue_coverage_loop(cv, iteration_count, max_iterations)
    /\ coverage_log' = Append(coverage_log, coverage_decision'.should_continue)
    /\ iteration_count' = iteration_count + 1
    /\ UNCHANGED <<max_iterations, execVars, trackVars, stageVars, analyzerVars, pipelineVars, runnerVars>>

NextCoverageLoop == \E cv \in CoverageReports : CallCoverageLoop(cv)

SpecCoverageLoop == InitCoverageLoop /\ [][NextCoverageLoop]_vars

----------------------------------------------------------------------------
(* The execution loop controller called once per iteration *)

InitExecutionLoop ==
    /\ exec_max_iterations \in 0..MaxIterBound
    /\ exec_iteration_count = 0
    /\ test_status_summary = EmptyDict
    /\ execution_decision = EmptyDict
    /\ CtlIdle /\ TrackIdle /\ StageIdle /\ AnalyzerIdle /\ PipelineIdle /\ RunnerIdle

CallExecutionLoop(tss) ==
    /\ exec_iteration_count < MaxEvals
    /\ test_status_summary' = tss
    /\ execution_decision' =
          should_continue_execution_loop(tss, exec_iteration_count, exec_max_iterations)
    /\ exec_iteration_count' = exec_iteration_count + 1
    /\ UNCHANGED <<exec_max_iterations, ctlVars, trackVars, stageVars, analyzerVars, pipelineVars, runnerVars>>

NextExecutionLoop == \E tss \in StatusSummaries : CallExecutionLoop(tss)

SpecExecutionLoop == InitExecutionLoop /\ [][NextExecutionLoop]_vars

----------------------------------------------------------------------------
(* Stage 2 around the test case status tracker: the tracker is initialised  *)
(* from the scenarios of Stage 1; in each iteration the tests run and the   *)
(* tracker is updated, the loop controller decides, and on "continue" the   *)
(* failing tests are implemented anew                                       *)

Min(a, b) == IF a <= b THEN a ELSE b

\* scenarios of Stage 1 as the tracker reads them
ScenarioT1 ==
    [id |-> <<"t1">>, description |-> <<"test", "add", "happy">>, target_name |-> <<"add">>]
ScenarioT2 ==
    [id |-> <<"t2">>, description |-> <<"test", "mul", "edge">>,
     target_name |-> <<"Calc", ".", "mul">>]
ScenarioNoId ==
    [description |-> <<"test", "add", "edge">>, target_name |-> <<"add">>]
ScenarioT1Again ==
    [id |-> <<"t1">>, description |-> <<"test", "sub">>, target_name |-> <<"sub">>]
ScenarioNamedAdd ==
    [id |-> <<"add">>, description |-> <<"t2">>, target_name |-> <<"t1">>]

\* scenario lists: distinct ids; a scenario without an id; two scenarios
\* sharing an id; a record whose target name and description are the ids of
\* later records
ScenarioLists ==
    { <<ScenarioT1, ScenarioT2, ScenarioNoId>>,
      <<ScenarioNoId, ScenarioT2, ScenarioT1>>,
      <<ScenarioT1, ScenarioT1Again, ScenarioT2>>,
      <<ScenarioNamedAdd, ScenarioT1, ScenarioT2>> }

\* the lists handed to initialize_test_status_tracking: the first 0..MaxTests
\* scenarios of a list
TrackedScenarioLists ==
    {SubSeq(l, 1, k) : l \in ScenarioLists, k \in 0..Min(MaxTests, 3)}

\* outcomes reported by the runner: named by an id, by a target name that is
\* also a word of a description and an id, without a name, and by a name of
\* no record
ExecutionOutcomes ==
    { [test_name |-> <<"t1">>, status |-> "PASS", output |-> <<"ok">>],
      [test_name |-> <<"add">>, status |-> "ERROR",
       error |-> <<"E", "ImportError", "x">>],
      [test_name |-> <<"t2">>, status |-> "FAIL", error |-> <<"SyntaxError">>],
      [status |-> "FAIL", error |-> <<"AssertionError">>],
      [test_name |-> <<"zzz">>, status |-> "PASS"] }

\* lists of 1..n outcomes, no outcome reported twice in one run
OutcomeLists(n) ==
    {d \in SeqsUpTo(ExecutionOutcomes, n) :
        /\ d # <<>>
        /\ \A i, j \in 1..Len(d) : i # j => d[i] # d[j]}

\* results with per-test details, and results with an overall status only
ExecutionResults ==
    {[status |-> "FAIL", test_details |-> d] : d \in OutcomeLists(MaxDetails)}
    \cup {[status |-> "PASS", test_details |-> <<>>], [status |-> "FAIL"],
          [status |-> "ERROR", error_summary |-> <<"SyntaxError", ":", "bad">>],
          [status |-> "UNKNOWN"], EmptyDict}

\* max_iterations handed to the loop controller: the ceiling 1 and the default
Stage2MaxIterations == {1, EXECUTION_MAX_ITERATIONS}

InitTracker ==
    /\ tracked_scenarios \in TrackedScenarioLists
    /\ tracking_data = initialize_test_status_tracking(tracked_scenarios)
    /\ test_results = EmptyDict
    /\ execution_iteration = 0
    /\ stage2_step = "run"
    /\ exit_result = EmptyDict
    /\ final_test_suite = EmptyDict
    /\ merge_result = EmptyDict
    /\ exec_max_iterations \in Stage2MaxIterations
    /\ exec_iteration_count = 0
    /\ test_status_summary = EmptyDict
    /\ execution_decision = EmptyDict
    /\ CtlIdle /\ StageIdle /\ AnalyzerIdle /\ PipelineIdle /\ RunnerIdle

\* the tests have run: the tracker takes the results with
\* update_test_case_status and hands its get_status_summary to the controller
UpdateStatus(tr) ==
    /\ stage2_step = "run"
    /\ execution_iteration < MaxUpdates
    /\ test_results' = tr
    /\ tracking_data' = update_test_case_status(tracking_data, tr, execution_iteration)
    /\ execution_iteration' = execution_iteration + 1
    /\ test_status_summary' = get_status_summary(tracking_data')
    /\ stage2_step' = "control"
    /\ UNCHANGED <<tracked_scenarios, exit_result, final_test_suite, merge_result,
                   exec_max_iterations, exec_iteration_count, execution_decision,
                   ctlVars, stageVars, analyzerVars, pipelineVars, runnerVars>>

\* the decision process of the ExecutionLoopController: it calls
\* should_continue_execution_loop and, when the loop should exit,
\* exit_execution_loop and prepare_final_test_suite
ControlExecutionLoop ==
    /\ stage2_step = "control"
    /\ execution_decision' =
          should_continue_execution_loop(test_status_summary, exec_iteration_count,
                                         exec_max_iterations)
    /\ exec_iteration_count' = exec_iteration_count + 1
    /\ IF execution_decision'.should_continue
       THEN /\ stage2_step' = "implement"
            /\ UNCHANGED <<exit_result, final_test_suite>>
       ELSE /\ exit_result' =
                  exit_execution_loop(execution_decision'.final_success_rate,
                                      execution_decision'.exit_type,
                                      execution_decision'.tests_still_failing,
                                      test_status_summary.total_tests)
            /\ final_test_suite' =
                  prepare_final_test_suite(test_status_summary,
                                           exit_result'.return_strategy)
            /\ stage2_step' = "done"
    /\ UNCHANGED <<tracked_scenarios, tracking_data, test_results, execution_iteration,
                   merge_result, exec_max_iterations, test_status_summary,
                   ctlVars, stageVars, analyzerVars, pipelineVars, runnerVars>>

\* the loop continues: the failing test cases are implemented anew and merged
\* with the passing ones
ImplementIncrementally ==
    /\ stage2_step = "implement"
    /\ merge_result' =
          merge_test_implementations(
              implement_failed_tests(get_failed_test_cases(tracking_data)),
              get_passed_test_cases(tracking_data))
    /\ stage2_step' = "run"
    /\ UNCHANGED <<tracked_scenarios, tracking_data, test_results, execution_iteration,
                   exit_result, final_test_suite, execVars,
                   ctlVars, stageVars, analyzerVars, pipelineVars, runnerVars>>

NextTracker ==
    \/ \E tr \in ExecutionResults : UpdateStatus(tr)
    \/ ControlExecutionLoop
    \/ ImplementIncrementally

SpecTracker == InitTracker /\ [][NextTracker]_vars

----------------------------------------------------------------------------
(* Stage 1, the coverage optimization loop: in each iteration the scenario  *)
(* designer extends the scenario list, the validator scores it and the loop *)
(* controller decides                                                       *)

FunctionItem(name) == [type |-> "function", name |-> <<name>>]

ClassItem(name, methods) ==
    [type |-> "class", name |-> <<name>>,
     methods |-> [i \in 1..Len(methods) |-> [name |-> <<methods[i]>>]]]

\* reports of analyze_code_structure: no unit; one function; a function and a
\* class with one method; two functions; the same units in the legacy
\* format; and the report {} the state holds before the analysis
Inventories ==
    { [status |-> "success", structure |-> <<>>],
      [status |-> "success", structure |-> <<FunctionItem("add")>>],
      [status |-> "success",
       structure |-> <<FunctionItem("add"), ClassItem("Calc", <<"mul">>)>>],
      [status |-> "success", structure |-> <<FunctionItem("add"), FunctionItem("sub")>>],
      [functions |-> <<[name |-> <<"add">>]>>,
       classes |-> <<[name |-> <<"Calc">>]>>,
       methods |-> <<[class_name |-> <<"Calc">>, methods |-> <<[name |-> <<"mul">>]>>]>>],
      EmptyDict }

\* scenarios of the designer: naming a unit, naming no unit, naming a unit of
\* another type, typed by coverage_target only, and lacking target fields
Scenarios ==
    { [target_type |-> <<"function">>, target_name |-> <<"add">>],
      [target_type |-> <<"method">>, target_name |-> <<"Calc", ".", "mul">>],
      [target_type |-> <<"class">>, target_name |-> <<"Calc">>],
      [target_type |-> <<"function">>, target_name |-> <<"ghost">>],
      [target_type |-> <<"method">>, target_name |-> <<"mul">>],
      [target_type |-> <<"class">>, target_name |-> <<"add">>],
      [coverage_target |-> <<"function", ":", "sub">>, target_name |-> <<"sub">>],
      [target_type |-> <<"function">>],
      [target_name |-> <<"add">>],
      EmptyDict }

InitStage1 ==
    /\ static_analysis \in Inventories
    /\ test_scenarios = <<>>
    /\ coverage_validation_result = EmptyDict
    /\ coverage_loop_decision = EmptyDict
    /\ coverage_iteration = 0
    /\ escalate = FALSE
    /\ CtlIdle /\ ExecIdle /\ TrackIdle /\ AnalyzerIdle /\ PipelineIdle /\ RunnerIdle

\* one iteration of the LoopAgent: the designer appends new scenarios, the
\* validator calls validate_scenario_coverage and should_continue_coverage_loop
\* and, when the decision is to stop, exit_loop
Stage1Iteration(new) ==
    /\ ~escalate
    /\ coverage_iteration < COVERAGE_MAX_ITERATIONS
    /\ Len(test_scenarios) + Len(new) <= MaxScenarios
    /\ test_scenarios' = test_scenarios \o new
    /\ coverage_validation_result' =
          validate_scenario_coverage(test_scenarios', static_analysis)
    /\ coverage_loop_decision' =
          should_continue_coverage_loop(coverage_validation_result',
                                        coverage_iteration, COVERAGE_MAX_ITERATIONS)
    /\ escalate' = ~coverage_loop_decision'.should_continue
    /\ coverage_iteration' = coverage_iteration + 1
    /\ UNCHANGED <<static_analysis, ctlVars, execVars, trackVars, analyzerVars, pipelineVars, runnerVars>>

NextStage1 == \E new \in SeqsUpTo(Scenarios, 1) : Stage1Iteration(new)

SpecStage1 == InitStage1 /\ [][NextStage1]_vars

----------------------------------------------------------------------------
(* The code analyzer called once on a source text and a language *)

FunctionDef(name) == [kind |-> "FunctionDef", name |-> <<name>>, body |-> <<>>]

ClassDef(name, body) == [kind |-> "ClassDef", name |-> <<name>>, body |-> body]

\* statements of a module: functions; a class with a method named as a
\* function; a class holding a nested class; a class and a function under
\* an if; a class whose only member is an async method
Statements ==
    { FunctionDef("m"),
      FunctionDef("f"),
      ClassDef("C", <<FunctionDef("m")>>),
      ClassDef("Outer", <<FunctionDef("m"), ClassDef("Inner", <<FunctionDef("n")>>)>>),
      [kind |-> "If", body |-> <<ClassDef("D", <<FunctionDef("m")>>), FunctionDef("g")>>],
      ClassDef("E", <<[kind |-> "AsyncFunctionDef", name |-> <<"a">>, body |-> <<>>]>>) }

\* source texts: modules of 0..MaxStatements statements, and a text that
\* does not parse
Sources ==
    {[parses |-> TRUE, body |-> b] : b \in SeqsUpTo(Statements, MaxStatements)}
    \cup {[parses |-> FALSE]}

Languages == {"python", "Python", "java", "JAVA", "javascript", ""}

InitAnalyzer ==
    /\ source_code \in Sources
    /\ language \in Languages
    /\ analysis = EmptyDict
    /\ CtlIdle /\ ExecIdle /\ TrackIdle /\ StageIdle /\ PipelineIdle /\ RunnerIdle

AnalyzeCode ==
    /\ analysis = EmptyDict
    /\ analysis' = analyze_code_structure(source_code, language)
    /\ UNCHANGED <<source_code, language, ctlVars, execVars, trackVars, stageVars,
                   pipelineVars, runnerVars>>

NextAnalyzer == AnalyzeCode

SpecAnalyzer == InitAnalyzer /\ [][NextAnalyzer]_vars

----------------------------------------------------------------------------
(* The two-stage pipeline of two_stage_coordinator/coordinator.py: the      *)
(* SequentialAgent two_stage_system runs its sub-agents in order, each to   *)
(* its end; the LoopAgent repeats its sub-agents until one escalates or     *)
(* max_iterations is reached; an exception of a tool ends the run           *)

\* the sub-agents of two_stage_system, in order
SubAgents ==
    <<"code_analyzer_agent", "coverage_optimization_loop", "stage2_test_implementation",
      "report_generator_agent", "result_summarizer_agent">>

\* the sub-agent after one
NextSubAgent(agent) ==
    LET i == CHOOSE k \in 1..Len(SubAgents) : SubAgents[k] = agent
    IN  IF i < Len(SubAgents) THEN SubAgents[i + 1] ELSE "done"

\* a class that defines __init__ and the comparison method __eq__
ClassWithMagicMethods ==
    ClassDef("P", <<[kind |-> "FunctionDef", name |-> <<"__", "init", "__">>, body |-> <<>>],
                    [kind |-> "FunctionDef", name |-> <<"__", "eq", "__">>, body |-> <<>>]>>)

\* source texts of the pipeline: modules of at most one statement and a
\* text that does not parse
PipelineSources ==
    {[parses |-> TRUE, body |-> b] :
        b \in SeqsUpTo(Statements \cup {ClassWithMagicMethods}, 1)}
    \cup {[parses |-> FALSE]}

\* a line "test_selective.py::name WORD" of pytest -v
ResultLine(name, word) == <<"test_selective.py", "::", name, " ", word>>

ResultLines ==
    { ResultLine("test_a", "PASSED"), ResultLine("test_b", "FAILED"),
      ResultLine("test_c", "SKIPPED"), ResultLine("test_d", "ERROR") }

\* the last line of pytest for the result lines it printed
SummaryLine(results) ==
    LET Count(word) == Cardinality({i \in 1..Len(results) : results[i][5] = word})
    IN  <<ToString(Count("FAILED")), " ", "failed", " ", ToString(Count("PASSED")), " ",
          "passed", " ", "in", " ", "0.01", " ", "seconds">>

\* what pytest prints and returns for the tests it ran: 0 when none failed,
\* 1 when some failed or had an error, 5 when it ran none
PytestRun(results) ==
    [venv |-> 0, pip |-> 0, pytest |-> "exited",
     returncode |-> IF results = <<>> THEN 5
                    ELSE IF \E i \in 1..Len(results) : results[i][5] \in {"FAILED", "ERROR"}
                    THEN 1 ELSE 0,
     stdout |-> IF results = <<>> THEN <<<<"no tests ran">>>>
                ELSE Append(results, SummaryLine(results)),
     stderr |-> <<>>,
     suite |-> [i \in 1..Len(results) |-> results[i][3]]]

\* pytest could not import the test module: no test ran, exit code 2
CollectionError ==
    [venv |-> 0, pip |-> 0, pytest |-> "exited", returncode |-> 2,
     stdout |-> << <<"ERROR", " ", "collecting", " ", "test_selective.py">>,
                   <<"1", " ", "error", " ", "in", " ", "0.10", "s">> >>,
     stderr |-> <<>>, suite |-> <<"test_a">>]

\* the lists of at most n different result lines
DistinctResults(n) ==
    {r \in SeqsUpTo(ResultLines, n) : \A i, j \in 1..Len(r) : r[i] = r[j] => i = j}

\* runs of the sandbox: venv or pip fails, pytest times out or cannot be
\* started, pytest exits
SandboxRuns ==
    { [venv |-> 1, suite |-> <<"test_a">>],
      [venv |-> 0, pip |-> 1, suite |-> <<"test_a">>],
      [venv |-> 0, pip |-> 0, pytest |-> "TimeoutExpired", suite |-> <<"test_a">>],
      [venv |-> 0, pip |-> 0, pytest |-> "Exception", suite |-> <<"test_a">>],
      CollectionError }
    \cup {PytestRun(results) : results \in DistinctResults(MaxLines)}

\* initialize_two_stage_state
InitPipeline ==
    /\ source_code \in PipelineSources
    /\ language \in Languages
    /\ analysis = EmptyDict
    /\ static_analysis = EmptyDict
    /\ test_scenarios = <<>>
    /\ coverage_validation_result = EmptyDict
    /\ coverage_loop_decision = EmptyDict
    /\ coverage_iteration = 0
    /\ escalate = FALSE
    /\ pipeline_position = SubAgents[1]
    /\ agents_run = <<>>
    /\ generated_test_code = <<>>
    /\ selective_test_results = EmptyDict
    /\ CtlIdle /\ ExecIdle /\ TrackIdle /\ RunnerIdle

\* code_analyzer_agent with save_analysis_to_state: what the tool returns is
\* saved as static_analysis_report; what it raises ends the run
RunCodeAnalyzer ==
    /\ pipeline_position = "code_analyzer_agent"
    /\ analysis' = analyze_code_structure(source_code, language)
    /\ agents_run' = Append(agents_run, "code_analyzer_agent")
    /\ IF "raised" \in DOMAIN analysis'
       THEN /\ pipeline_position' = "aborted"
            /\ UNCHANGED static_analysis
       ELSE /\ pipeline_position' = NextSubAgent(pipeline_position)
            /\ static_analysis' = analysis'.returned
    /\ UNCHANGED <<source_code, language, test_scenarios, coverage_validation_result,
                   coverage_loop_decision, coverage_iteration, escalate,
                   generated_test_code, selective_test_results,
                   ctlVars, execVars, trackVars, runnerVars>>

\* one iteration of coverage_optimization_loop: the designer calls
\* generate_coverage_focused_scenarios with the static analysis report, the
\* validator calls validate_scenario_coverage, should_continue_coverage_loop
\* and, when the decision is to stop, exit_loop
CoverageOptimizationIteration ==
    /\ pipeline_position = "coverage_optimization_loop"
    /\ test_scenarios' =
          generate_coverage_focused_scenarios(static_analysis, <<>>, 0).scenarios
    /\ coverage_validation_result' =
          validate_scenario_coverage(test_scenarios', static_analysis)
    /\ coverage_loop_decision' =
          should_continue_coverage_loop(coverage_validation_result',
                                        coverage_iteration, COVERAGE_MAX_ITERATIONS)
    /\ escalate' = ~coverage_loop_decision'.should_continue
    /\ coverage_iteration' = coverage_iteration + 1
    /\ agents_run' = agents_run \o <<"scenario_coverage_designer_agent",
                                     "coverage_validator_agent">>
    /\ pipeline_position' =
          IF escalate' \/ coverage_iteration' >= COVERAGE_MAX_ITERATIONS
          THEN NextSubAgent(pipeline_position) ELSE pipeline_position
    /\ UNCHANGED <<static_analysis, generated_test_code, selective_test_results,
                   ctlVars, execVars, trackVars, analyzerVars, runnerVars>>

\* stage2_test_implementation: the implementer writes the test suite, the
\* runner calls execute_selective_tests and parse_selective_results
Stage2TestImplementation(sandbox) ==
    /\ pipeline_position = "stage2_test_implementation"
    /\ generated_test_code' = sandbox.suite
    /\ selective_test_results' =
          parse_selective_results(
              execute_selective_tests(Len(generated_test_code'), sandbox), <<>>)
    /\ agents_run' = agents_run \o <<"incremental_test_implementer_agent",
                                     "selective_test_runner_agent">>
    /\ pipeline_position' = NextSubAgent(pipeline_position)
    /\ UNCHANGED <<stageVars, ctlVars, execVars, trackVars, analyzerVars, runnerVars>>

\* report_generator_agent, then result_summarizer_agent
RunReporting ==
    /\ pipeline_position \in {"report_generator_agent", "result_summarizer_agent"}
    /\ agents_run' = Append(agents_run, pipeline_position)
    /\ pipeline_position' = NextSubAgent(pipeline_position)
    /\ UNCHANGED <<generated_test_code, selective_test_results, stageVars,
                   ctlVars, execVars, trackVars, analyzerVars, runnerVars>>

NextPipeline ==
    \/ RunCodeAnalyzer
    \/ CoverageOptimizationIteration
    \/ \E sandbox \in SandboxRuns : Stage2TestImplementation(sandbox)
    \/ RunReporting

SpecPipeline == InitPipeline /\ [][NextPipeline]_vars

----------------------------------------------------------------------------
(* The test runner: execute_tests_sandboxed, then parse_test_results on    *)
(* its output, with the ExecutionTracker of the module behind both          *)

\* the texts handed to execute_tests_sandboxed
RunnerTestCode == <<"def", "test_a", "def", "test_b">>
RunnerSourceCode == <<"def", "add">>

\* lines of pytest -v
PassedA == <<"test_generated.py", "::", "test_a", " ", "PASSED">>
FailedB == <<"test_generated.py", "::", "test_b", " ", "FAILED">>
FailedC == <<"test_generated.py", "::", "test_c", " ", "FAILED">>
SummaryInfo == <<"=", "short test summary info", "=">>
FailureBlock(name) ==
    << <<"_", name, "_">>, <<"def", name>>, <<"E", "assert 1 == 2">> >>

\* runs of the sandbox: venv fails without output, pip fails with exit code
\* 1 or 2, pytest exits with 0 (all passed), 1 (failures, with and without
\* the summary info block), 2 (collection error), 5 (no tests ran)
RunnerSandboxRuns ==
    { [venv |-> 1, stdout |-> <<>>],
      [venv |-> 0, pip |-> 1, stdout |-> <<<<"Collecting", "pytest">>>>],
      [venv |-> 0, pip |-> 2, stdout |-> <<<<"Collecting", "pytest">>>>],
      [venv |-> 0, pip |-> 0, returncode |-> 0, stderr |-> <<>>,
       stdout |-> <<PassedA, <<"=", "1", "passed", "in", "0.01s", "=">>>>],
      [venv |-> 0, pip |-> 0, returncode |-> 1, stderr |-> <<>>,
       stdout |-> <<PassedA, FailedB>> \o FailureBlock("test_b")
                    \o <<SummaryInfo, <<"FAILED", "test_generated.py", "::", "test_b">>,
                         <<"=", "1", "failed", "1", "passed", "in", "0.02s", "=">>>>],
      [venv |-> 0, pip |-> 0, returncode |-> 1, stderr |-> <<>>,
       stdout |-> <<FailedB, FailedC>> \o FailureBlock("test_b") \o FailureBlock("test_c")
                    \o <<SummaryInfo, <<"=", "2", "failed", "in", "0.02s", "=">>>>],
      [venv |-> 0, pip |-> 0, returncode |-> 1, stderr |-> <<>>,
       stdout |-> <<FailedB>> \o FailureBlock("test_b")
                    \o <<<<"=", "1", "failed", "in", "0.02s", "=">>>>],
      [venv |-> 0, pip |-> 0, returncode |-> 2, stderr |-> <<>>,
       stdout |-> <<<<"ERROR", "collecting", "test_generated.py">>, SummaryInfo,
                    <<"ERROR", "test_generated.py">>,
                    <<"=", "1", "error", "in", "0.10s", "=">>>>],
      [venv |-> 0, pip |-> 0, returncode |-> 5, stderr |-> <<>>,
       stdout |-> <<<<"=", "no tests ran", "in", "0.00s", "=">>>>] }

\* the module's tracker after "execution_tracker = ExecutionTracker()"
InitRunner ==
    /\ execution_history = <<>>
    /\ current_session = EmptyDict
    /\ raw_execution_output = EmptyDict
    /\ parsed_results = EmptyDict
    /\ clock = 0
    /\ sessions_started = 0
    /\ runner_step = "execute"
    /\ CtlIdle /\ ExecIdle /\ TrackIdle /\ StageIdle /\ AnalyzerIdle /\ PipelineIdle

\* execute_tests_sandboxed: start_execution opens the session, the sandbox
\* runs for some time and its output is returned
ExecuteTestsSandboxed(sandbox, elapsed) ==
    /\ runner_step = "execute"
    /\ sessions_started < MaxRuns
    /\ current_session' = start_execution(RunnerTestCode, RunnerSourceCode, clock)
    /\ sessions_started' = sessions_started + 1
    /\ clock' = clock + elapsed
    /\ raw_execution_output' = execute_tests_sandboxed(sandbox)
    /\ runner_step' = "parse"
    /\ UNCHANGED <<execution_history, parsed_results,
                   ctlVars, execVars, trackVars, stageVars, analyzerVars, pipelineVars>>

\* parse_test_results on the output of the run
ParseTestResults ==
    /\ runner_step = "parse"
    /\ LET done == parse_test_results(raw_execution_output, execution_history,
                                      current_session, clock)
       IN  /\ parsed_results' = done[1]
           /\ execution_history' = done[2]
           /\ current_session' = done[3]
    /\ runner_step' = "execute"
    /\ UNCHANGED <<raw_execution_output, clock, sessions_started,
                   ctlVars, execVars, trackVars, stageVars, analyzerVars, pipelineVars>>

NextRunner ==
    \/ \E sandbox \in RunnerSandboxRuns, elapsed \in {0, 1} :
            ExecuteTestsSandboxed(sandbox, elapsed)
    \/ ParseTestResults

SpecRunner == InitRunner /\ [][NextRunner]_vars

----------------------------------------------------------------------------
(* Claims on the coverage loop controller *)

\* the call whose result coverage_decision holds was made with this iteration_count
LastIteration == iteration_count - 1

\* overall coverage of a report: the larger of its two readings, 0 when absent
ReportCoverage(cv) ==
    Max(Get(Get(cv, "coverage_summary", EmptyDict), "overall_coverage", 0),
        Get(cv, "coverage_percentage", 0))

\* C1: once the controller has been called with iteration_count = 0, 1, ...,
\* max_iterations, on any reports (empty ones included), at least one of
\* those calls has returned should_continue = False.
C1_TerminatesWithinMaxIterations ==
    Len(coverage_log) > max_iterations =>
        \E i \in 1..(max_iterations + 1) : coverage_log[i] = FALSE

\* C2: the rules are applied in strict priority order, first match wins, on
\* every report: (1) iteration_count >= max_iterations exits with
\* max_iterations whatever the report holds, the empty report included;
\* (2) else meets_target and coverage >= 100 exits with target_achieved;
\* (3) else coverage >= 80 at iteration >= 2 exits with acceptable_threshold;
\* (4) else the loop continues.
C2_StrictPriorityOrder ==
    Len(coverage_log) > 0 =>
        LET cv  == coverage_validation
            cov == ReportCoverage(cv)
            d   == coverage_decision
        IN  IF LastIteration >= max_iterations
            THEN ~d.should_continue /\ Get(d, "exit_type", "none") = "max_iterations"
            ELSE IF Get(cv, "meets_target", FALSE) /\ cov >= Pct(100)
            THEN ~d.should_continue /\ Get(d, "exit_type", "none") = "target_achieved"
            ELSE IF cov >= Pct(80) /\ LastIteration >= 2
            THEN ~d.should_continue /\ Get(d, "exit_type", "none") = "acceptable_threshold"
            ELSE d.should_continue

----------------------------------------------------------------------------
(* Claims on the execution loop controller *)

ExecLastIteration == exec_iteration_count - 1

----------------------------------------------------------------------------
(* Claims on the test case status tracker *)

\* the outcomes of an execution result
OutcomesOf(tr) == Get(tr, "test_details", <<>>)

\* no outcome of the result matches the record
NoOutcomeMatches(tr, record) ==
    \A k \in 1..Len(OutcomesOf(tr)) :
        ~RecordMatches(Get(OutcomesOf(tr)[k], "test_name", <<>>), record)

\* the ids returned by get_passed_test_cases
PassedIds(td) ==
    {get_passed_test_cases(td)[k].test_id : k \in 1..Len(get_passed_test_cases(td))}

----------------------------------------------------------------------------
(* Claims on the coverage validator and Stage 1 *)

\* the inventory of the example: function add, class Calc with method mul
CalcInventory ==
    [status |-> "success",
     structure |-> <<FunctionItem("add"), ClassItem("Calc", <<"mul">>)>>]

AddScenario == [target_type |-> <<"function">>, target_name |-> <<"add">>]
MulScenario == [target_type |-> <<"method">>, target_name |-> <<"Calc", ".", "mul">>]
CalcScenario == [target_type |-> <<"class">>, target_name |-> <<"Calc">>]

\* a validation has run: the state holds a report of validate_scenario_coverage
Validated == coverage_validation_result # EmptyDict

Summary == coverage_validation_result.coverage_summary

\* number of units of the inventory
UnitCount(sa) ==
    Cardinality(AllFunctions(sa)) + Cardinality(AllClasses(sa))
        + Cardinality(AllMethods(sa))

\* the step appended exactly one scenario to a validated list
Appended ==
    /\ Validated
    /\ Len(test_scenarios') = Len(test_scenarios) + 1

NewScenario == test_scenarios'[Len(test_scenarios')]

\* C5 as stated: for the inventory add, Calc{mul}, the list [function add]
\* yields overall 50%, function 100%, method 0%; with method Calc.mul added
\* overall is 100% and the controller exits with target_achieved.
C5_ExampleAsStated ==
    (Validated /\ static_analysis = CalcInventory) =>
        /\ test_scenarios = <<AddScenario>> =>
              /\ Summary.overall_coverage = Pct(50)
              /\ Summary.function_coverage = Pct(100)
              /\ Summary.method_coverage = 0
        /\ test_scenarios = <<AddScenario, MulScenario>> =>
              /\ Summary.overall_coverage = Pct(100)
              /\ Get(coverage_loop_decision, "exit_type", "none") = "target_achieved"

\* C5 amended: the class Calc is a unit too, so the inventory has three units:
\* [function add] yields overall 33.33%, function 100%, method 0%; with
\* method Calc.mul added overall is 66.67% and the controller continues; with
\* class Calc added as well overall is 100% and the controller, evaluated on
\* that report below the iteration ceiling, exits with target_achieved.
C5_ExampleCountsClass ==
    (Validated /\ static_analysis = CalcInventory) =>
        /\ test_scenarios = <<AddScenario>> =>
              /\ Summary.overall_coverage = 3333
              /\ Summary.function_coverage = Pct(100)
              /\ Summary.method_coverage = 0
        /\ test_scenarios = <<AddScenario, MulScenario>> =>
              /\ Summary.overall_coverage = 6667
              /\ ~coverage_validation_result.meets_target
              /\ coverage_loop_decision.should_continue
        /\ test_scenarios = <<AddScenario, MulScenario, CalcScenario>> =>
              /\ Summary.overall_coverage = Pct(100)
              /\ coverage_validation_result.meets_target
              /\ ~coverage_loop_decision.should_continue
              /\ Get(coverage_loop_decision, "exit_type", "none") = "target_achieved"

\* the three scenarios of the example have been validated and the loop has exited
C5_Witness ==
    /\ static_analysis = CalcInventory
    /\ test_scenarios = <<AddScenario, MulScenario, CalcScenario>>
    /\ Validated
    /\ Get(coverage_loop_decision, "exit_type", "none") = "target_achieved"

\* C6: with an inventory of no units and an empty scenario list the report
\* gives 100 for overall, function, class and method coverage.
C6_EmptyInventoryFullyCovered ==
    (Validated /\ UnitCount(static_analysis) = 0 /\ test_scenarios = <<>>) =>
        /\ Summary.overall_coverage = Pct(100)
        /\ Summary.function_coverage = Pct(100)
        /\ Summary.class_coverage = Pct(100)
        /\ Summary.method_coverage = Pct(100)

\* the scenario names a unit of the inventory, of the type the validator
\* files the scenario under
NamesUnit(scenario, sa) ==
    LET name == Get(scenario, "target_name", <<>>)
    IN  \/ ScenarioBranch(scenario) = "function" /\ name \in AllFunctions(sa)
        \/ ScenarioBranch(scenario) = "class" /\ name \in AllClasses(sa)
        \/ ScenarioBranch(scenario) = "method" /\ name \in AllMethods(sa)

\* the report is the same in percentages, covered-unit count and meets_target
SameCoverage ==
    /\ coverage_validation_result'.coverage_summary = Summary
    /\ coverage_validation_result'.coverage_details.covered_units
          = coverage_validation_result.coverage_details.covered_units
    /\ coverage_validation_result'.meets_target = coverage_validation_result.meets_target

\* C7: a scenario whose target_name names no unit of the inventory is
\* unmapped: appending it to the scenario list changes no coverage
\* percentage, not the covered-unit count and not meets_target.
C7_UnmappedScenarioContributesNothing ==
    [][(/\ Appended
        /\ "target_name" \in DOMAIN NewScenario
        /\ ~NamesUnit(NewScenario, static_analysis)) => SameCoverage]_vars

\* the scenario lacks target_type, target_name or both
Malformed(scenario) ==
    "target_type" \notin DOMAIN scenario \/ "target_name" \notin DOMAIN scenario

\* C8: a malformed scenario is skipped: appending it adds nothing to a
\* covered set, to the covered-unit count or to a coverage percentage.
C8_MalformedScenarioSkipped ==
    [][(Appended /\ Malformed(NewScenario)) =>
          /\ SameCoverage
          /\ coverage_validation_result'.covered_units
                = coverage_validation_result.covered_units]_vars

\* the names the scenarios reference
ReferencedNames == {Get(sc, "target_name", <<>>) : sc \in Elems(test_scenarios)}

\* some unit of the inventory is referenced by no scenario
UnreferencedFunctions == AllFunctions(static_analysis) \ ReferencedNames
UnreferencedClasses == AllClasses(static_analysis) \ ReferencedNames
UnreferencedMethods == AllMethods(static_analysis) \ ReferencedNames

\* C9: a unit referenced by no scenario is listed as uncovered, and then
\* overall_coverage < 100 and meets_target is false, whatever other names the
\* scenarios reference.
C9_UnreferencedUnitBlocksTarget ==
    Validated =>
        /\ UnreferencedFunctions \subseteq coverage_validation_result.uncovered_units.functions
        /\ UnreferencedClasses \subseteq coverage_validation_result.uncovered_units.classes
        /\ UnreferencedMethods \subseteq coverage_validation_result.uncovered_units.methods
        /\ (UnreferencedFunctions \cup UnreferencedClasses \cup UnreferencedMethods # {}
              => /\ Summary.overall_coverage < Pct(100)
                 /\ ~coverage_validation_result.meets_target)

\* C10: appending a scenario never decreases overall_coverage, and with an
\* empty scenario list overall_coverage is 0 when the inventory has a unit
\* and 100 when it has none.
C10_CoverageMonotone ==
    [][/\ Appended => coverage_validation_result'.coverage_summary.overall_coverage
                        >= Summary.overall_coverage
       /\ (test_scenarios' = <<>> /\ coverage_validation_result' # EmptyDict) =>
             coverage_validation_result'.coverage_summary.overall_coverage
                = IF UnitCount(static_analysis) > 0 THEN 0 ELSE Pct(100)]_vars

----------------------------------------------------------------------------
(* Claims on the tracker: initialisation, matching, classification, summary *)

\* the update of this step has run update_test_case_status
UpdateStep == execution_iteration' = execution_iteration + 1

\* the ids of a list of records
IdsOf(records) == {records[i].id : i \in 1..Len(records)}

\* the record is pending: it holds the member TestCaseStatus.PENDING or its value
IsPending(record) == record.status \in {TestCaseStatus_PENDING, PENDING}

\* C11: initialize_test_status_tracking creates exactly one record per
\* scenario: the number of records, total_tests and status_summary.pending
\* equal the number of scenarios for every scenario list (distinct ids, no
\* id, shared id), and every record is pending.
C11_OneRecordPerScenario ==
    (stage2_step = "run" /\ execution_iteration = 0) =>
        /\ Len(tracking_data.test_records) = Len(tracked_scenarios)
        /\ tracking_data.total_tests = Len(tracked_scenarios)
        /\ tracking_data.status_summary.pending = Len(tracked_scenarios)
        /\ \A i \in 1..Len(tracking_data.test_records) :
              IsPending(tracking_data.test_records[i])

\* C12: matching by id is primary: an outcome whose test_name equals the id
\* of a record is applied to that record and to no other, whatever the order
\* of the records (here for results reporting one outcome).
C12_IdMatchIsPrimary ==
    [][(UpdateStep /\ Len(OutcomesOf(test_results')) = 1) =>
          \A i \in 1..Len(tracking_data.test_records) :
             tracking_data.test_records[i].id
                   = Get(OutcomesOf(test_results')[1], "test_name", <<>>)
             => /\ tracking_data'.test_records[i]
                      = ApplyResult(tracking_data.test_records[i],
                                    OutcomesOf(test_results')[1], execution_iteration)
                /\ \A j \in 1..Len(tracking_data.test_records) :
                      j # i => tracking_data'.test_records[j]
                                  = tracking_data.test_records[j]]_vars

\* the fields an update may write are the same before and after the step
SameOutcomeFields(i) ==
    /\ tracking_data'.test_records[i].status = tracking_data.test_records[i].status
    /\ tracking_data'.test_records[i].last_error = tracking_data.test_records[i].last_error
    /\ tracking_data'.test_records[i].iteration_passed
          = tracking_data.test_records[i].iteration_passed
    /\ tracking_data'.test_records[i].iteration_failed
          = tracking_data.test_records[i].iteration_failed
    /\ tracking_data'.test_records[i].execution_output
          = tracking_data.test_records[i].execution_output

\* every outcome of the result matches no record
AllOutcomesUnmatched(tr, records) ==
    /\ OutcomesOf(tr) # <<>>
    /\ \A i \in 1..Len(records) : NoOutcomeMatches(tr, records[i])

\* C13: updates never create and never delete a record: the record ids stay
\* the ids created by initialize_test_status_tracking; and outcomes that
\* match no record leave status, last_error, iteration_passed,
\* iteration_failed and execution_output of every record unchanged.
C13_UpdatesKeepRecords ==
    [][/\ Len(tracking_data'.test_records) = Len(tracking_data.test_records)
       /\ IdsOf(tracking_data'.test_records)
             = IdsOf(initialize_test_status_tracking(tracked_scenarios).test_records)
       /\ (UpdateStep /\ AllOutcomesUnmatched(test_results', tracking_data.test_records))
             => \A i \in 1..Len(tracking_data.test_records) : SameOutcomeFields(i)]_vars

\* an update has taken a result whose outcomes match none of the records,
\* after an earlier update that did change a record
C13_Witness ==
    /\ execution_iteration = 2
    /\ stage2_step = "control"
    /\ Len(tracking_data.test_records) > 0
    /\ AllOutcomesUnmatched(test_results, tracking_data.test_records)
    /\ \E i \in 1..Len(tracking_data.test_records) :
          tracking_data.test_records[i].status = PASSED

\* the error text contains SyntaxError or ImportError
NamesSyntaxOrImport(text) ==
    InStr(<<"SyntaxError">>, text) \/ InStr(<<"ImportError">>, text)

\* status a non-pass outcome with this error text is classified as
NonPassStatus(text) == IF NamesSyntaxOrImport(text) THEN SYNTAX_ERROR ELSE FAILED

\* the classification of one matched outcome, reported alone
ClassifiesMatchedOutcome ==
    (UpdateStep /\ Len(OutcomesOf(test_results')) = 1) =>
        LET outcome == OutcomesOf(test_results')[1]
            m == MatchingRecord(tracking_data.test_records,
                                Get(outcome, "test_name", <<>>))
            after == tracking_data'.test_records[m]
        IN  m # 0 =>
              IF Get(outcome, "status", "UNKNOWN") = "PASS"
              THEN /\ after.status = PASSED
                   /\ after.last_error = <<>>
                   /\ after.iteration_passed = execution_iteration
              ELSE /\ after.status = NonPassStatus(Get(outcome, "error", <<>>))
                   /\ after.iteration_failed = execution_iteration

\* the classification of pending records under an overall FAIL or ERROR
ClassifiesOverallFailure ==
    (/\ UpdateStep
     /\ OutcomesOf(test_results') = <<>>
     /\ Get(test_results', "status", "UNKNOWN") \in {"FAIL", "ERROR"}) =>
        \A i \in 1..Len(tracking_data.test_records) :
            IsPending(tracking_data.test_records[i]) =>
                /\ tracking_data'.test_records[i].status
                      = NonPassStatus(Get(test_results', "error_summary",
                                          <<"Execution", "failed">>))
                /\ tracking_data'.test_records[i].iteration_failed = execution_iteration

\* C14: a matched outcome with status PASS gives passed (last_error cleared,
\* iteration_passed = current iteration); a non-pass outcome whose error
\* names SyntaxError or ImportError gives syntax_error; every other non-pass
\* outcome gives failed (iteration_failed = current iteration); and the same
\* rule classifies the pending records when only an overall FAIL or ERROR
\* is reported.
C14_Classification ==
    [][ClassifiesMatchedOutcome /\ ClassifiesOverallFailure]_vars

\* number of records with the status
Tracked(status) == CountStatus(tracking_data.test_records, status)

\* the tests executed so far: passed, failed or syntax_error
Executed == Tracked(PASSED) + Tracked(FAILED) + Tracked(SYNTAX_ERROR)

\* C15: success_rate of get_status_summary is taken over the executed tests
\* only: it is passed / (passed + failed + syntax_error) x 100 rounded to two
\* places, whatever the number of pending records, and 0 when no test has
\* been executed; tests_needing_attention is failed + syntax_error.
C15_SuccessRateOverExecuted ==
    test_status_summary # EmptyDict =>
        /\ Executed = 0 => test_status_summary.success_rate = 0
        /\ Executed > 0 =>
              /\ 2 * (test_status_summary.success_rate * Executed
                        - Pct(100) * Tracked(PASSED)) <= Executed
              /\ 2 * (Pct(100) * Tracked(PASSED)
                        - test_status_summary.success_rate * Executed) <= Executed
        /\ test_status_summary.tests_needing_attention
              = Tracked(FAILED) + Tracked(SYNTAX_ERROR)

\* a summary of a tracker with one test passed and another still pending
C15_Witness ==
    /\ test_status_summary # EmptyDict
    /\ Tracked(PASSED) = 1
    /\ Executed = 1
    /\ \E i \in 1..Len(tracking_data.test_records) :
          IsPending(tracking_data.test_records[i])
    /\ test_status_summary.success_rate = Pct(100)

----------------------------------------------------------------------------
(* Claims on leaving the execution loop and on incremental implementation *)

\* the tests known to fail: failed or syntax_error
Failing == Tracked(FAILED) + Tracked(SYNTAX_ERROR)

\* C16: on exit of the execution loop, return_strategy is complete_suite
\* exactly when no test is failing and passing_tests_only otherwise; the
\* final suite includes no failing test, and under passing_tests_only its
\* total is the number of passing tests.
C16_NoFailingTestDelivered ==
    stage2_step = "done" =>
        /\ exit_result.return_strategy
              = (IF Failing = 0 THEN "complete_suite" ELSE "passing_tests_only")
        /\ final_test_suite.return_strategy = exit_result.return_strategy
        /\ final_test_suite.tests_to_include.failing = 0
        /\ exit_result.return_strategy = "passing_tests_only" =>
              final_test_suite.tests_to_include.total = Tracked(PASSED)

\* the loop has exited at the iteration ceiling with one test passing and
\* one failing, and the suite holds the passing one only
C16_Witness ==
    /\ stage2_step = "done"
    /\ execution_decision.exit_type = "max_iterations"
    /\ Failing = 1
    /\ Tracked(PASSED) = 1
    /\ exit_result.return_strategy = "passing_tests_only"
    /\ final_test_suite.tests_to_include.total = 1

\* the implementations of the merge, as a set
MergedImplementations == Elems(merge_result.all_implementations)

\* C17: every test case returned by get_passed_test_cases is present in
\* all_implementations of merge_test_implementations, marked preserved, with
\* regenerated = False and with its code unchanged.
C17_PassingTestsPreserved ==
    (stage2_step = "run" /\ merge_result # EmptyDict) =>
        \A k \in 1..Len(get_passed_test_cases(tracking_data)) :
            \E impl \in MergedImplementations :
                /\ impl.test_id = get_passed_test_cases(tracking_data)[k].test_id
                /\ Get(impl, "preserved", FALSE)
                /\ ~impl.regenerated
                /\ impl.test_code = get_passed_test_cases(tracking_data)[k].test_code

----------------------------------------------------------------------------
(* Claims on the code analyzer *)

\* the analysis has returned an inventory
Extracted ==
    /\ "returned" \in DOMAIN analysis
    /\ analysis.returned.status = "success"

Structure == analysis.returned.structure

\* number of positions of a list that satisfy a test
CountIn(list, Test(_)) == Cardinality({i \in 1..Len(list) : Test(list[i])})

\* the module defines, at top level, exactly one class C, which has exactly
\* one method m, and exactly one function m
IsFunctionM(node) == node.kind = "FunctionDef" /\ node.name = <<"m">>
IsClassC(node) == node.kind = "ClassDef" /\ node.name = <<"C">>
IsClassCWithM(node) == IsClassC(node) /\ CountIn(node.body, IsFunctionM) = 1
ClassAndFunctionShareName ==
    /\ source_code.parses
    /\ CountIn(source_code.body, IsFunctionM) = 1
    /\ CountIn(source_code.body, IsClassC) = 1
    /\ CountIn(source_code.body, IsClassCWithM) = 1

IsFunctionEntryM(entry) == entry.type = "function" /\ entry.name = <<"m">>
IsMethodEntryM(entry) == entry.name = <<"m">>
IsClassEntry(entry) == entry.type = "class"
IsClassEntryC(entry) == IsClassEntry(entry) /\ entry.name = <<"C">>
IsClassEntryCWithOneM(entry) ==
    IsClassEntryC(entry) /\ CountIn(entry.methods, IsMethodEntryM) = 1

\* C18: for a source with a class C containing a method m and a top-level
\* function m, the inventory holds exactly one class entry C, it has exactly
\* one method entry m, and exactly one top-level function entry m: the
\* method is not also a function entry and neither entry is duplicated.
C18_MethodFunctionDisjoint ==
    (Extracted /\ ClassAndFunctionShareName) =>
        /\ CountIn(Structure, IsFunctionEntryM) = 1
        /\ CountIn(Structure, IsClassEntryC) = 1
        /\ CountIn(Structure, IsClassEntryCWithOneM) = 1

\* such a source has been analysed, the function coming first and another
\* class with a method m following
C18_Witness ==
    /\ Extracted
    /\ ClassAndFunctionShareName
    /\ IsFunctionM(source_code.body[1])
    /\ Len(source_code.body) = 3
    /\ source_code.body[3].kind = "ClassDef"
    /\ Len(Structure) = 3

\* the class definitions of a list of statements, nested ones included, as
\* pairs <<name, names of its methods>>
RECURSIVE ClassDefsIn(_)
ClassDefsIn(nodes) ==
    IF nodes = <<>> THEN <<>>
    ELSE LET node == Head(nodes)
             own  == IF node.kind = "ClassDef"
                     THEN <<[name |-> node.name,
                             methods |-> [i \in 1..Len(MethodsOf(node.body)) |->
                                             MethodsOf(node.body)[i].name]]>>
                     ELSE <<>>
         IN  own \o ClassDefsIn(Get(node, "body", <<>>)) \o ClassDefsIn(Tail(nodes))

\* the functions defined outside every class, under compound statements included
RECURSIVE FunctionDefsOutsideClasses(_)
FunctionDefsOutsideClasses(nodes) ==
    IF nodes = <<>> THEN <<>>
    ELSE LET node == Head(nodes)
             own  == IF node.kind = "FunctionDef" THEN <<node.name>>
                     ELSE IF node.kind = "ClassDef" THEN <<>>
                     ELSE FunctionDefsOutsideClasses(Get(node, "body", <<>>))
         IN  own \o FunctionDefsOutsideClasses(Tail(nodes))

\* the class entries of the inventory as pairs, and its function entries
ClassEntries ==
    LET classes == SelectSeq(Structure, IsClassEntry)
    IN  [i \in 1..Len(classes) |->
            [name |-> classes[i].name,
             methods |-> [k \in 1..Len(classes[i].methods) |->
                             classes[i].methods[k].name]]]

IsFunctionEntry(entry) == entry.type = "function"

FunctionEntries ==
    LET functions == SelectSeq(Structure, IsFunctionEntry)
    IN  [i \in 1..Len(functions) |-> functions[i].name]

\* the same elements with the same multiplicities
SameBag(a, b) ==
    \A x \in Elems(a) \cup Elems(b) :
        Cardinality({i \in 1..Len(a) : a[i] = x})
            = Cardinality({i \in 1..Len(b) : b[i] = x})

\* C19: every class definition of the source, a class nested in another
\* class included, appears exactly once in the inventory with its own
\* methods, and no method of a class is recorded as a top-level function.
C19_EveryClassOnce ==
    Extracted =>
        /\ SameBag(ClassEntries, ClassDefsIn(source_code.body))
        /\ SameBag(FunctionEntries, FunctionDefsOutsideClasses(source_code.body))

\* C20: with a language other than python (java, an unknown name) the
\* analysis returns an error result saying the language is unsupported; it
\* raises no exception.
C20_UnsupportedLanguageIsResult ==
    (analysis # EmptyDict /\ Lower(language) # "python") =>
        /\ "returned" \in DOMAIN analysis
        /\ analysis.returned.status = "error"
        /\ InStr(<<"Unsupported language">>, analysis.returned.message)

----------------------------------------------------------------------------
(* Claims on the two-stage pipeline *)

\* the analyzer has run on a Python text that does not parse
SyntaxErrorFound ==
    /\ analysis # EmptyDict
    /\ Lower(language) = "python"
    /\ ~source_code.parses

\* the agents of the stages after the structural extraction
LaterStages ==
    {"scenario_coverage_designer_agent", "coverage_validator_agent",
     "incremental_test_implementer_agent", "selective_test_runner_agent",
     "report_generator_agent", "result_summarizer_agent"}

\* C21: when the structural extraction of the source fails with a syntax
\* error, the run is aborted: no later stage (scenario generation, coverage
\* validation, Stage 2 execution, reporting) runs for that source.
C21_SyntaxErrorAbortsRun ==
    SyntaxErrorFound =>
        /\ pipeline_position = "aborted"
        /\ \A i \in 1..Len(agents_run) : agents_run[i] \notin LaterStages

----------------------------------------------------------------------------
(* Claims on the test runner and its ExecutionTracker *)

\* parse_test_results has been called on the output of the last run
Parsed == runner_step = "execute" /\ sessions_started > 0

\* C22: parsing the output of a sandbox run maps the exit code: 0 gives
\* status PASS, 1 gives FAIL, any other exit code gives ERROR and never FAIL.
C22_ExitCodeMapping ==
    Parsed =>
        /\ "returned" \in DOMAIN parsed_results
        /\ parsed_results.returned.status =
              (IF raw_execution_output.exit_code = 0 THEN "PASS"
               ELSE IF raw_execution_output.exit_code = 1 THEN "FAIL"
               ELSE "ERROR")

\* C23: every session opened by execute_tests_sandboxed is appended to the
\* execution history exactly once, when parse_test_results parses its
\* output, whatever the exit code of the run; no other step changes the
\* history, and no step removes or changes an entry.
C23_EverySessionAppendedOnce ==
    [][IF runner_step = "parse"
       THEN /\ Len(execution_history') = Len(execution_history) + 1
            /\ SubSeq(execution_history', 1, Len(execution_history)) = execution_history
            /\ execution_history'[Len(execution_history')].session_id
                  = current_session.session_id
       ELSE execution_history' = execution_history]_vars

----------------------------------------------------------------------------
(* Claims on Stage 2 of the pipeline *)

\* C24: Stage 2 is repeated until the execution loop controller signals exit
\* or the iteration budget is used up: a first execution of Stage 2 that
\* ends with failing tests is followed by another Stage 2 iteration, not by
\* the reporting.
C24_Stage2Repeats ==
    [][(/\ pipeline_position = "stage2_test_implementation"
        /\ selective_test_results = EmptyDict
        /\ selective_test_results'.status = "FAIL")
            => pipeline_position' = "stage2_test_implementation"]_vars

----------------------------------------------------------------------------
(* Claims on the statuses within and after one update *)

\* the outcomes of a result that the update applies to record m of the list
OutcomesAppliedTo(tr, records, m) ==
    {k \in 1..Len(OutcomesOf(tr)) :
        /\ MatchingRecord(records, Get(OutcomesOf(tr)[k], "test_name", <<>>)) = m
        /\ records[m].id # <<>>}

\* C25: within one update_test_case_status call each record is assigned a
\* status at most once: the record a call leaves behind is the one written
\* for a single outcome and is not overwritten by a later outcome of the
\* same results list.
C25_OneStatusPerPass ==
    [][UpdateStep =>
          \A m \in 1..Len(tracking_data.test_records) :
             LET applied == OutcomesAppliedTo(test_results', tracking_data.test_records, m)
                 first   == CHOOSE k \in applied : \A j \in applied : k <= j
             IN  applied # {} =>
                    tracking_data'.test_records[m]
                        = ApplyResult(tracking_data.test_records[m],
                                      OutcomesOf(test_results')[first],
                                      execution_iteration)]_vars

\* the five status values
StatusValues == {PENDING, PASSED, FAILED, SYNTAX_ERROR, SKIPPED}

\* C26: an update whose result has overall status PASS and no per-test
\* details marks every record passed, whatever the records held before, and
\* get_status_summary then reports all_tests_passing.
C26_OverallPassMarksAllPassed ==
    [][(/\ UpdateStep
        /\ Get(test_results', "status", "UNKNOWN") = "PASS"
        /\ OutcomesOf(test_results') = <<>>)
          => /\ \A i \in 1..Len(tracking_data'.test_records) :
                    tracking_data'.test_records[i].status = PASSED
             /\ test_status_summary'.all_tests_passing]_vars

\* the sum of the five counts of a status_summary
SummaryTotal(status_summary) ==
    status_summary.pending + status_summary.passed + status_summary.failed
        + status_summary.syntax_error + status_summary.skipped

\* C27: after initialize_test_status_tracking and any sequence of updates
\* the five counts of status_summary sum to total_tests, total_tests is the
\* number of records, and every record holds one of the five statuses
\* (pending as the enum member or as its value).
C27_SummaryCountsAddUp ==
    /\ SummaryTotal(tracking_data.status_summary) = tracking_data.total_tests
    /\ tracking_data.total_tests = Len(tracking_data.test_records)
    /\ \A i \in 1..Len(tracking_data.test_records) :
          tracking_data.test_records[i].status \in StatusValues \cup {TestCaseStatus_PENDING}

\* every outcome of the result has no test_name or an empty one
AllOutcomesUnnamed(tr) ==
    /\ OutcomesOf(tr) # <<>>
    /\ \A k \in 1..Len(OutcomesOf(tr)) : Get(OutcomesOf(tr)[k], "test_name", <<>>) = <<>>

\* C29: an execution outcome whose test_name is missing or empty matches no
\* record: every record keeps its status, last_error, iteration_passed,
\* iteration_failed and execution_output.
C29_UnnamedOutcomeMatchesNothing ==
    [][(UpdateStep /\ AllOutcomesUnnamed(test_results'))
          => \A i \in 1..Len(tracking_data.test_records) : SameOutcomeFields(i)]_vars

\* the return code of the process in what execute_selective_tests returned
ReturnCodeOf(execution_results) ==
    Get(execution_results, "return_code", Get(execution_results, "exit_code", 0))

\* the records of the tracker for the designed scenarios after one update
\* with the parsed results of the run
RecordsAfterRun(scenarios, results) ==
    update_test_case_status(initialize_test_status_tracking(scenarios),
                            results, 0).test_records

\* C28: parse_selective_results returns status PASS only for a run whose
\* pytest process exited with return code 0: for an execution result with a
\* non-zero return code the parsed status is FAIL or ERROR, and a following
\* update_test_case_status turns no pending record into passed
C28_NonZeroReturnCodeNeverPasses ==
    [][\A sandbox \in SandboxRuns :
          (/\ Stage2TestImplementation(sandbox)
           /\ ReturnCodeOf(execute_selective_tests(Len(sandbox.suite), sandbox)) # 0)
             => /\ selective_test_results'.status \in {"FAIL", "ERROR"}
                /\ LET records == RecordsAfterRun(test_scenarios, selective_test_results')
                   IN  \A i \in 1..Len(records) : records[i].status # PASSED]_vars

\* the dict uncovered_units of the validation names no function, class or method
NoUncoveredUnit(cv) ==
    /\ cv.uncovered_units.functions = {}
    /\ cv.uncovered_units.classes = {}
    /\ cv.uncovered_units.methods = {}

\* C30: for an inventory returned by analyze_code_structure that holds at
\* least one unit, the scenarios of generate_coverage_focused_scenarios for
\* it, validated against the same inventory, give overall_coverage 100 and
\* meets_target with no uncovered unit, and the loop exits with
\* target_achieved
C30_DesignedScenariosCoverInventory ==
    [][(/\ CoverageOptimizationIteration
        /\ coverage_iteration = 0
        /\ Get(static_analysis, "structure", <<>>) # <<>>)
          => /\ coverage_validation_result'.coverage_summary.overall_coverage = Pct(100)
             /\ coverage_validation_result'.meets_target
             /\ NoUncoveredUnit(coverage_validation_result')
             /\ Get(coverage_loop_decision', "exit_type", "none") = "target_achieved"]_vars

====
